---- MODULE Spec2Model ----
(***************************************************************************)
(* Model of the model-lifecycle core of Smart_SIEM (backend/):             *)
(*   model_versioning.py  the Version Store (versions.json + artifacts)    *)
(*   trainer.py           train_and_maybe_promote / promote_to_production  *)
(*   model_wrapper.py     the Prediction Engine, reader of current.joblib  *)
(*   db.py, app.py        POST /events: insert, prediction, auto-classify  *)
(*                        POST /classify, GET /ml/evaluate, rollback,      *)
(*                        the store client                                 *)
(*   scheduler.py         the retrain job and its rescheduling             *)
(*   backfill.py          backfill_predictions                             *)
(*   features.py          extract_features                                 *)
(* Every handler is split at its file-system calls, so that the durable    *)
(* states between two writes and the interleavings of two callers are      *)
(* states of the model.  A file is a sequence of chunks; the artifact of   *)
(* pipeline a is ChunksPerFile chunks a.  Timestamps are abstracted:       *)
(* version_id is the clock second, created_at a strictly increasing stamp, *)
(* promoted_until is kept as "stamped or not".                             *)
(***************************************************************************)
EXTENDS Integers, Sequences, FiniteSets, TLC

\* ---- bounds of the model
MaxClock == 2        \* clock seconds 1..MaxClock (version ids, file stamps)
MaxArtifacts == 2    \* pipelines handed to save / produced by training
ChunksPerFile == 2   \* writes one copy of an artifact takes
MaxConcCalls == 1    \* calls of each of two concurrent callers
MaxIngests == 2      \* requests on the alert stores in one behaviour
MaxClients == 4      \* store clients created in one behaviour
MaxAlerts == 3       \* alerts of the corpus a backfill streams
BatchSize == 2       \* batch_size of backfill_predictions (100 in the code)

\* ---- program constants (F1 in hundredths)
MIN_TRAINING_SAMPLES == 20
MIN_SAMPLES_PER_CLASS == 5
F1_IMPROVEMENT_THRESHOLD == 2

Procs == {1, 2}

VARIABLES
  clock,     \* the wall clock, in seconds
  seq,       \* pipelines created so far
  stamps,    \* created_at stamps handed out so far
  meta,      \* models/versions.json: the persisted list of version records
  files,     \* the blob store: path -> content
  pc,        \* per caller: the place in the handler it executes
  loc,       \* per caller: the handler's local variables
  ret,       \* per caller: what its last completed call returned
  pre,       \* per caller: meta, files and modelsColl when its call started
  observed,  \* what the last read of models/current.joblib returned
  modelsColl, \* the "models" collection of the document store
  promoLog,  \* the ids of the latest promote calls in a row that returned true
  calls,     \* per caller: the calls it has started (counted where bounded)
  engine,    \* the WazuhMLModel singleton: model, version, model_path, threshold
  engLast,   \* the last call on the engine: its arguments, result, engine before
  thresholdSet, \* the last threshold set, and the reloads made since
  alerts,    \* the "alerts" collection: documents, unique by _id
  malicious, \* the "malicious" collection (labeled partition)
  safe,      \* the "safe" collection (labeled partition)
  clsLast,   \* the last POST /classify: arguments, status and stores it found
  settings,  \* the ml_settings document of the "settings" collection
  ingLast,   \* the last POST /events: payload, failed step, result, settings and
             \* collections it found
  ingested,  \* POST /events and POST /classify requests handled so far
  scheduler, \* the BackgroundScheduler: running, and the jobs of its job store
  schedLast, \* the last call on the scheduler and whether it rescheduled
  bfLast,    \* the last backfill run: arguments, result, collection it found
  evLast,    \* the last GET /ml/evaluate: its response and the alerts it found
  featLast,  \* the last alert given to extract_features and what the calls returned
  dbClient   \* db._client, the store clients open, those of running retrain jobs

vars == <<clock, seq, stamps, meta, files, pc, loc, ret, pre, observed,
          modelsColl, promoLog, calls, engine, engLast, thresholdSet,
          alerts, malicious, safe, clsLast, settings, ingLast, ingested,
          scheduler, schedLast, bfLast, evLast, featLast, dbClient>>

lifecycleVars == <<clock, seq, stamps, meta, pc, loc, ret, pre, observed,
                   modelsColl, promoLog, calls>>
engineVars == <<engine, engLast, thresholdSet>>
ingestVars == <<alerts, malicious, safe, clsLast, settings, ingLast, ingested>>
schedVars == <<scheduler, schedLast>>
backfillVars == <<bfLast>>
evalVars == <<evLast>>
featVars == <<featLast>>
clientVars == <<dbClient>>

\* ---- paths (model_versioning.py 14-17, trainer.py 170-171, 185-186)
CURRENT_MODEL == <<"current", 0>>
TEMP_PATH == <<"tmp", 0>>
VersionPath(id) == <<"versions", id>>
AuthclfPath(ts) == <<"authclf", ts>>
Seconds == 1..MaxClock
Paths == {CURRENT_MODEL, TEMP_PATH}
           \cup {VersionPath(i) : i \in Seconds}
           \cup {AuthclfPath(i) : i \in Seconds}

NoFile == <<-1>>
Exists(path) == files[path] # NoFile
Full(a) == [i \in 1..ChunksPerFile |-> a]
IsComplete(c) == \E a \in 1..MaxArtifacts : c = Full(a)

\* a write of one chunk at a 0-based offset of a file (holes read as 0)
WriteAt(content, off, chunk) ==
  IF off < Len(content)
  THEN [content EXCEPT ![off + 1] = chunk]
  ELSE content \o [i \in 1..(off - Len(content)) |-> 0] \o <<chunk>>

\* ---- version records
\* variant: the lookup returns the oldest record of the id
FindIndex_Oldest(vs, id) ==
  IF \E i \in DOMAIN vs : vs[i].version_id = id
  THEN CHOOSE i \in DOMAIN vs :
         /\ vs[i].version_id = id
         /\ \A j \in (i + 1)..Len(vs) : vs[j].version_id # id
  ELSE 0

\* next(v for v in versions if v["version_id"] == version_id): the first
\* record of the id, 0 for None
FindIndex(vs, id) ==
  IF \E i \in DOMAIN vs : vs[i].version_id = id
  THEN CHOOSE i \in DOMAIN vs :
         /\ vs[i].version_id = id
         /\ \A j \in 1..(i - 1) : vs[j].version_id # id
  ELSE 0

Demote(vs) ==
  [i \in DOMAIN vs |->
     IF vs[i].is_production
     THEN [vs[i] EXCEPT !.is_production = FALSE, !.promoted_until = TRUE]
     ELSE vs[i]]

RECURSIVE InsertDesc(_, _)
InsertDesc(sorted, e) ==
  IF sorted = <<>> THEN <<e>>
  ELSE IF sorted[1].created_at >= e.created_at
       THEN <<sorted[1]>> \o InsertDesc(Tail(sorted), e)
       ELSE <<e>> \o sorted

RECURSIVE SortNewestFirst(_)
SortNewestFirst(vs) ==
  IF vs = <<>> THEN <<>>
  ELSE InsertDesc(SortNewestFirst(SubSeq(vs, 1, Len(vs) - 1)), vs[Len(vs)])

NewVersion(id, stamp) ==
  [version_id |-> id, path |-> VersionPath(id), created_at |-> stamp,
   is_production |-> TRUE, promoted_until |-> FALSE]

\* variant: flags the version without demoting the others
MarkProduction_NoDemote(vs, i) ==
  [vs EXCEPT ![i].is_production = TRUE]

MarkProduction(vs, i) ==
  [Demote(vs) EXCEPT ![i].is_production = TRUE]

RemoveVersion(vs, id) == SelectSeq(vs, LAMBDA v : v.version_id # id)

\* ---- locals of a caller
NoLoc ==
  [op |-> "none", vid |-> 0, art |-> 0, versions |-> <<>>,
   srcpath |-> TEMP_PATH, src |-> <<>>, fd |-> "none", off |-> 0,
   nested |-> FALSE, nMal |-> 0, nSafe |-> 0, newF1 |-> 0, curF1 |-> 0,
   baseline |-> "none"]

NoRet ==
  [op |-> "none", vid |-> 0, val |-> "none", msg |-> "none", version |-> 0,
   nMal |-> 0, nSafe |-> 0, newF1 |-> 0, curF1 |-> 0, baseline |-> "none"]

Snapshot == [meta |-> meta, files |-> files, modelsColl |-> modelsColl]

\* ---- the Prediction Engine (model_wrapper.py); scores and thresholds in
\* hundredths
DEFAULT_THRESHOLD == 50
NoPath == <<"none", 0>>
UnknownVersion == <<"unknown", 0>>

\* __init__, lines 18-21, before its load_model
NewEngine(path) ==
  [model |-> 0, version |-> UnknownVersion, model_path |-> path,
   threshold |-> DEFAULT_THRESHOLD]

\* load_model, lines 24-45: the engine it leaves and the value it returns;
\* joblib.load raises on a file that is not a whole artifact
LoadModelFrom(disk, e, path) ==
  LET e1 == IF path # NoPath THEN [e EXCEPT !.model_path = path] ELSE e
      content == disk[e1.model_path]
  IN IF content = NoFile
     THEN [engine |-> e1, ok |-> FALSE]
     ELSE IF IsComplete(content)
          THEN [engine |-> [e1 EXCEPT !.model = content[1],
                                      !.version = e1.model_path],
                ok |-> TRUE]
          ELSE [engine |-> e1, ok |-> FALSE]

LoadModel(e, path) == LoadModelFrom(files, e, path)

\* get_model, lines 141-146: the singleton as its constructor leaves it
Constructed == LoadModel(NewEngine(CURRENT_MODEL), CURRENT_MODEL).engine

\* get_info, lines 123-130
GetInfo(e) ==
  [loaded |-> e.model # 0, version |-> e.version, path |-> e.model_path,
   threshold |-> e.threshold]

NoEngLast ==
  [op |-> "none", path |-> NoPath, ok |-> FALSE, raised |-> FALSE,
   error |-> FALSE, label |-> "none", score |-> 0, proba |-> 0,
   pre |-> NewEngine(CURRENT_MODEL)]

EngineInit ==
  /\ engine = Constructed
  /\ engLast = NoEngLast
  /\ thresholdSet = [t |-> DEFAULT_THRESHOLD, reloaded |-> "none"]

\* ---- ingestion (db.py 78-161, app.py 335-436)
\* timestamps are <<kind, value, offset notation>>
NoTimestamp == <<"none", 0, "">>
\* datetime.now() has microsecond resolution: every request reads a later
\* instant than the request before it
NowTimestamp == <<"now", ingested, "Z">>
NoComposite == <<NoTimestamp, 0, 0, 0>>
Unset == -1
DEFAULT_CONFIDENCE == 85

NoPayload ==
  [id |-> "", timestamp |-> NoTimestamp, agent |-> 0, rule |-> 0,
   log_head |-> 0, log_tail |-> 0]

NoSettings ==
  [present |-> FALSE, auto_classify |-> FALSE, confidence_threshold |-> Unset,
   retrain_interval_hours |-> Unset, retrain_interval_value |-> Unset,
   retrain_interval_unit |-> "unset", scheduler_enabled |-> "unset"]

NoDocId == [kind |-> "none", own |-> "", composite |-> NoComposite]

NoIngLast ==
  [payload |-> NoPayload, id |-> NoDocId,
   status |-> "none", inserted |-> "none", fault |-> "none", predicted |-> FALSE,
   label |-> "none", score |-> 0, settings |-> NoSettings,
   preAlerts |-> {}, preMalicious |-> {}]

\* POST /classify has not been called
NoClsLast ==
  [id |-> NoDocId, label |-> "none", status |-> 0,
   preAlerts |-> {}, preMalicious |-> {}, preSafe |-> {}]

\* ---- the scheduler (scheduler.py 12-23): no scheduler yet
NoScheduler == [running |-> FALSE, jobs |-> <<>>]
NoSchedLast == [op |-> "none", status |-> "none", rescheduled |-> FALSE, fault |-> "none"]
\* no backfill has run
NoBfLast ==
  [op |-> "none", force |-> FALSE, outcomes |-> <<>>, failAt |-> 0,
   processed |-> 0, errors |-> 0, message |-> "none", preAlerts |-> {},
   held |-> 0, written |-> {}]

\* GET /ml/evaluate has not been called
NoEvLast == [op |-> "none"]

\* extract_features has not been called
NoFeatLast == [op |-> "none"]

\* db.py 19-20: _client is None; no client was created
NoClient == 0
NoDbClient ==
  [client |-> NoClient, made |-> 0, open |-> {}, jobs |-> {}, returned |-> <<>>]

SchedInit ==
  /\ scheduler = NoScheduler
  /\ schedLast = NoSchedLast
  /\ bfLast = NoBfLast
  /\ evLast = NoEvLast
  /\ featLast = NoFeatLast
  /\ dbClient = NoDbClient

IngestInit ==
  /\ SchedInit
  /\ alerts = {}
  /\ malicious = {}
  /\ safe = {}
  /\ clsLast = NoClsLast
  /\ settings = NoSettings
  /\ ingLast = NoIngLast
  /\ ingested = 0

Init ==
  /\ clock = 1
  /\ seq = 0
  /\ stamps = 0
  /\ meta = <<>>
  /\ files = [p \in Paths |-> NoFile]
  /\ pc = [p \in Procs |-> "idle"]
  /\ loc = [p \in Procs |-> NoLoc]
  /\ ret = [p \in Procs |-> NoRet]
  /\ pre = [p \in Procs |->
             [meta |-> <<>>, files |-> [q \in Paths |-> NoFile], modelsColl |-> <<>>]]
  /\ observed = NoFile
  /\ modelsColl = <<>>
  /\ promoLog = <<>>
  /\ calls = [p \in Procs |-> 0]
  /\ EngineInit
  /\ IngestInit

\* the log keeps the last LogLen promotions
LogLen == 3
LogPromote(id) ==
  LET l == Append(promoLog, id) IN
    IF Len(l) > LogLen THEN Tail(l) ELSE l

\* the call of p ends: its locals are dropped and its result recorded
Finish(p, val) ==
  /\ pc' = [pc EXCEPT ![p] = "idle"]
  /\ ret' = [ret EXCEPT ![p] =
               [NoRet EXCEPT !.op = loc[p].op, !.vid = loc[p].vid, !.val = val]]
  /\ loc' = [loc EXCEPT ![p] = NoLoc]

\* train_and_maybe_promote returns {promoted, version, metrics, message}
\* (trainer.py 284-307); the inputs of the run are kept with the result
FinishTrain(p, l, promoted, version, msg) ==
  /\ pc' = [pc EXCEPT ![p] = "idle"]
  /\ ret' = [ret EXCEPT ![p] =
               [op |-> "train", vid |-> l.vid, val |-> promoted, msg |-> msg,
                version |-> version, nMal |-> l.nMal, nSafe |-> l.nSafe,
                newF1 |-> l.newF1, curF1 |-> l.curF1, baseline |-> l.baseline]]
  /\ loc' = [loc EXCEPT ![p] = NoLoc]

Goto(p, label) == pc' = [pc EXCEPT ![p] = label]

\* ---- the clock
Tick ==
  /\ clock < MaxClock
  /\ clock' = clock + 1
  /\ UNCHANGED <<seq, stamps, meta, files, pc, loc, ret, pre, observed, modelsColl, promoLog>>

\* ---- save_model_version (model_versioning.py 34-95)
SaveCall(p) ==
  /\ pc[p] = "idle"
  /\ seq < MaxArtifacts
  /\ seq' = seq + 1
  /\ loc' = [loc EXCEPT ![p] = [NoLoc EXCEPT !.op = "save", !.art = seq + 1]]
  /\ ret' = [ret EXCEPT ![p] = NoRet]
  /\ pre' = [pre EXCEPT ![p] = Snapshot]
  /\ Goto(p, "save_dump")
  /\ UNCHANGED <<clock, stamps, meta, files, observed, modelsColl>>
  /\ promoLog' = <<>>

\* lines 56-61: the version id is the clock second; joblib.dump to its path
SaveDump(p) ==
  /\ pc[p] = "save_dump"
  /\ loc' = [loc EXCEPT ![p].vid = clock]
  /\ files' = [files EXCEPT ![VersionPath(clock)] = Full(loc[p].art)]
  /\ Goto(p, "save_load")
  /\ UNCHANGED <<clock, seq, stamps, meta, ret, pre, observed, modelsColl, promoLog>>

\* line 65: versions = load_all_versions()
SaveLoad(p) ==
  /\ pc[p] = "save_load"
  /\ loc' = [loc EXCEPT ![p].versions = meta]
  /\ Goto(p, "save_meta")
  /\ UNCHANGED <<clock, seq, stamps, meta, files, ret, pre, observed, modelsColl, promoLog>>

\* lines 68-90: demote, append the new record flagged production, persist
SaveMetadata(p) ==
  /\ pc[p] = "save_meta"
  /\ stamps' = stamps + 1
  /\ meta' = SortNewestFirst(
               Append(Demote(loc[p].versions), NewVersion(loc[p].vid, stamps + 1)))
  /\ loc' = [loc EXCEPT ![p].nested = TRUE, ![p].versions = <<>>]
  /\ Goto(p, "prom_load")
  /\ UNCHANGED <<clock, seq, files, ret, pre, observed, modelsColl, promoLog>>

\* ---- promote_version (model_versioning.py 98-137)
PromoteCall(p, id) ==
  /\ pc[p] = "idle"
  /\ loc' = [loc EXCEPT ![p] = [NoLoc EXCEPT !.op = "promote", !.vid = id]]
  /\ ret' = [ret EXCEPT ![p] = NoRet]
  /\ pre' = [pre EXCEPT ![p] = Snapshot]
  /\ Goto(p, "prom_load")
  /\ UNCHANGED <<clock, seq, stamps, meta, files, observed, modelsColl, promoLog>>

\* variant: promote_version without the os.path.exists check of line 114
PromoteLoad_NoFileCheck(p) ==
  /\ pc[p] = "prom_load"
  /\ LET i == FindIndex(meta, loc[p].vid) IN
       IF i = 0
       THEN Finish(p, IF loc[p].nested THEN "returned" ELSE "false")
       ELSE /\ loc' = [loc EXCEPT ![p].versions = MarkProduction(meta, i),
                                  ![p].srcpath = meta[i].path]
            /\ Goto(p, "copy_open")
            /\ UNCHANGED ret
  /\ UNCHANGED <<clock, seq, stamps, meta, files, pre, observed, modelsColl, promoLog>>

\* lines 105-126: load, look the version up, check its file, flip the flags
\* of the loaded list in memory
PromoteLoad(p) ==
  /\ pc[p] = "prom_load"
  /\ LET i == FindIndex(meta, loc[p].vid) IN
       IF i = 0 \/ ~Exists(meta[i].path)
       THEN Finish(p, IF loc[p].nested THEN "returned" ELSE "false")
       ELSE /\ loc' = [loc EXCEPT ![p].versions = MarkProduction(meta, i),
                                  ![p].srcpath = meta[i].path]
            /\ Goto(p, "copy_open")
            /\ UNCHANGED ret
  /\ UNCHANGED <<clock, seq, stamps, meta, files, pre, observed, modelsColl, promoLog>>

\* an exception: save, promote and delete hand it to their caller;
\* train_and_maybe_promote catches it (trainer.py 298-307)
Raise(p) ==
  /\ promoLog' = <<>>
  /\ IF loc[p].op = "train"
     THEN FinishTrain(p, loc[p], FALSE, 0, "error")
     ELSE Finish(p, "raised")

\* the process dies inside a call: whatever the call has written stays
Crash(p) ==
  /\ pc[p] # "idle"
  /\ IF loc[p].op = "train"
     THEN FinishTrain(p, loc[p], FALSE, 0, "crashed")
     ELSE Finish(p, "crashed")
  /\ promoLog' = <<>>
  /\ UNCHANGED <<clock, seq, stamps, meta, files, pre, observed, modelsColl>>

\* ---- shutil.copy2(version_path, temp_path): open-truncate, write the
\* chunks, copystat by path (model_versioning.py 130, trainer.py 189)
CopyOpen(p) ==
  /\ pc[p] = "copy_open"
  /\ IF Exists(loc[p].srcpath)
     THEN /\ files' = [files EXCEPT ![TEMP_PATH] = <<>>]
          /\ loc' = [loc EXCEPT ![p].fd = "tmp", ![p].off = 0,
                                 ![p].src = files[loc[p].srcpath]]
          /\ Goto(p, "copy_write")
          /\ UNCHANGED <<ret, promoLog>>
     ELSE Raise(p) /\ UNCHANGED files
  /\ UNCHANGED <<clock, seq, stamps, meta, pre, observed, modelsColl>>

FdPath(fd) == IF fd = "tmp" THEN TEMP_PATH ELSE CURRENT_MODEL

CopyWrite(p) ==
  /\ pc[p] = "copy_write"
  /\ loc[p].off < Len(loc[p].src)
  /\ files' = IF loc[p].fd = "gone" THEN files
              ELSE [files EXCEPT ![FdPath(loc[p].fd)] =
                      WriteAt(@, loc[p].off, loc[p].src[loc[p].off + 1])]
  /\ loc' = [loc EXCEPT ![p].off = @ + 1]
  /\ UNCHANGED <<clock, seq, stamps, meta, pc, ret, pre, observed, modelsColl, promoLog>>

CopyFinish(p) ==
  /\ pc[p] = "copy_write"
  /\ loc[p].off = Len(loc[p].src)
  /\ IF Exists(TEMP_PATH)
     THEN Goto(p, "replace") /\ UNCHANGED <<loc, ret, promoLog>>
     ELSE Raise(p)
  /\ UNCHANGED <<clock, seq, stamps, meta, files, pre, observed, modelsColl>>

\* an I/O error of the copy, at any point of it
CopyFails(p) ==
  /\ pc[p] \in {"copy_open", "copy_write"}
  /\ Raise(p)
  /\ UNCHANGED <<clock, seq, stamps, meta, files, pre, observed, modelsColl>>

\* os.replace(temp_path, CURRENT_MODEL): the rename moves the inode, and the
\* descriptors open on it, to the production path
Renamed(fd) == IF fd = "tmp" THEN "cur" ELSE IF fd = "cur" THEN "gone" ELSE fd

\* variant: the rename removes the temporary file without replacing the
\* production artifact
Replace_NoSwap(p) ==
  /\ pc[p] = "replace"
  /\ IF Exists(TEMP_PATH)
     THEN /\ files' = [files EXCEPT ![TEMP_PATH] = NoFile]
          /\ loc' = [q \in Procs |-> [loc[q] EXCEPT !.fd = Renamed(@)]]
          /\ Goto(p, IF loc[p].op = "train" THEN "train_insert" ELSE "prom_meta")
          /\ UNCHANGED <<ret, promoLog>>
     ELSE Raise(p) /\ UNCHANGED files
  /\ UNCHANGED <<clock, seq, stamps, meta, pre, observed, modelsColl>>

Replace(p) ==
  /\ pc[p] = "replace"
  /\ IF Exists(TEMP_PATH)
     THEN /\ files' = [files EXCEPT ![CURRENT_MODEL] = files[TEMP_PATH],
                                    ![TEMP_PATH] = NoFile]
          /\ loc' = [q \in Procs |-> [loc[q] EXCEPT !.fd = Renamed(@)]]
          /\ Goto(p, IF loc[p].op = "train" THEN "train_insert" ELSE "prom_meta")
          /\ UNCHANGED <<ret, promoLog>>
     ELSE Raise(p) /\ UNCHANGED files
  /\ UNCHANGED <<clock, seq, stamps, meta, pre, observed, modelsColl>>

ReplaceFails(p) ==
  /\ pc[p] = "replace"
  /\ Raise(p)
  /\ UNCHANGED <<clock, seq, stamps, meta, files, pre, observed, modelsColl>>

\* line 134: save_versions_metadata(versions); return True
PromoteMetadata(p) ==
  /\ pc[p] = "prom_meta"
  /\ meta' = SortNewestFirst(loc[p].versions)
  /\ Finish(p, IF loc[p].nested THEN "returned" ELSE "true")
  /\ promoLog' = IF loc[p].nested THEN promoLog ELSE LogPromote(loc[p].vid)
  /\ UNCHANGED <<clock, seq, stamps, files, pre, observed, modelsColl>>

\* ---- delete_version (model_versioning.py 182-207)
DeleteCall(p, id) ==
  /\ pc[p] = "idle"
  /\ loc' = [loc EXCEPT ![p] = [NoLoc EXCEPT !.op = "delete", !.vid = id]]
  /\ ret' = [ret EXCEPT ![p] = NoRet]
  /\ pre' = [pre EXCEPT ![p] = Snapshot]
  /\ Goto(p, "del_load")
  /\ UNCHANGED <<clock, seq, stamps, meta, files, observed, modelsColl>>
  /\ promoLog' = <<>>

\* variant: delete_version without the refusal of lines 193-195
DeleteLoad_NoRefusal(p) ==
  /\ pc[p] = "del_load"
  /\ LET i == FindIndex(meta, loc[p].vid) IN
       IF i = 0
       THEN Finish(p, "false")
       ELSE /\ loc' = [loc EXCEPT ![p].versions = meta]
            /\ Goto(p, "del_remove")
            /\ UNCHANGED ret
  /\ UNCHANGED <<clock, seq, stamps, meta, files, pre, observed, modelsColl, promoLog>>

\* lines 187-195: load, look up, refuse the production version
DeleteLoad(p) ==
  /\ pc[p] = "del_load"
  /\ LET i == FindIndex(meta, loc[p].vid) IN
       IF i = 0 \/ meta[i].is_production
       THEN Finish(p, "false")
       ELSE /\ loc' = [loc EXCEPT ![p].versions = meta]
            /\ Goto(p, "del_remove")
            /\ UNCHANGED ret
  /\ UNCHANGED <<clock, seq, stamps, meta, files, pre, observed, modelsColl, promoLog>>

\* lines 198-199: os.remove(version["path"]) when it exists
DeleteRemove(p) ==
  /\ pc[p] = "del_remove"
  /\ LET i == FindIndex(loc[p].versions, loc[p].vid) IN
       files' = [files EXCEPT ![loc[p].versions[i].path] = NoFile]
  /\ Goto(p, "del_meta")
  /\ UNCHANGED <<clock, seq, stamps, meta, loc, ret, pre, observed, modelsColl, promoLog>>

\* lines 203-207: drop the records with that id, persist, return True
DeleteMetadata(p) ==
  /\ pc[p] = "del_meta"
  /\ meta' = SortNewestFirst(RemoveVersion(loc[p].versions, loc[p].vid))
  /\ Finish(p, "true")
  /\ UNCHANGED <<clock, seq, stamps, files, pre, observed, modelsColl, promoLog>>

\* ---- a reader of the production artifact (model_wrapper.py 32-37)
ReadProduction ==
  /\ observed' = files[CURRENT_MODEL]
  /\ UNCHANGED <<clock, seq, stamps, meta, files, pc, loc, ret, pre, modelsColl, promoLog>>

\* ---- train_and_maybe_promote (trainer.py 197-307)
\* (malicious rows, safe rows) of the labeled store
SamplePairs == {<<0, 0>>, <<5, 10>>, <<0, 20>>, <<4, 20>>, <<5, 15>>}
F1Values == {80, 81, 82, 83}          \* F1 of the new pipeline on its test split
BaselineF1Values == {80, 81}          \* F1 of the production pipeline on the data

\* variant: a non-strict comparison
ShouldPromote_NonStrict(new_f1, current_f1) ==
  new_f1 >= current_f1 + F1_IMPROVEMENT_THRESHOLD

\* line 253
ShouldPromote(new_f1, current_f1) == new_f1 > current_f1 + F1_IMPROVEMENT_THRESHOLD

\* variant: train_model without the per-class minimum of lines 90-91
DataError_NoPerClass(nMal, nSafe) ==
  IF nMal + nSafe = 0 THEN "no_data"
  ELSE IF nMal + nSafe < MIN_TRAINING_SAMPLES THEN "insufficient"
  ELSE IF nMal = 0 \/ nSafe = 0 THEN "one_class"
  ELSE "none"

\* lines 63-64 and train_model 83-91: the error the data raises, if any
DataError(nMal, nSafe) ==
  IF nMal + nSafe = 0 THEN "no_data"
  ELSE IF nMal + nSafe < MIN_TRAINING_SAMPLES THEN "insufficient"
  ELSE IF nMal = 0 \/ nSafe = 0 THEN "one_class"
  ELSE IF nMal < MIN_SAMPLES_PER_CLASS \/ nSafe < MIN_SAMPLES_PER_CLASS
       THEN "per_class"
  ELSE "none"

\* lines 219-222: load the labeled rows, validate, fit and score the pipeline
TrainCall(p, nMal, nSafe, f1s) ==
  /\ pc[p] = "idle"
  /\ pre' = [pre EXCEPT ![p] = Snapshot]
  /\ promoLog' = <<>>
  /\ LET l == [NoLoc EXCEPT !.op = "train", !.nMal = nMal, !.nSafe = nSafe] IN
       IF DataError(nMal, nSafe) # "none"
       THEN FinishTrain(p, l, FALSE, 0, DataError(nMal, nSafe)) /\ UNCHANGED seq
       ELSE \/ FinishTrain(p, l, FALSE, 0, "error") /\ UNCHANGED seq
            \/ \E f1 \in f1s :
                 /\ seq < MaxArtifacts
                 /\ seq' = seq + 1
                 /\ loc' = [loc EXCEPT ![p] = [l EXCEPT !.art = seq + 1, !.newF1 = f1]]
                 /\ Goto(p, "train_save")
                 /\ ret' = [ret EXCEPT ![p] = NoRet]
  /\ UNCHANGED <<clock, stamps, meta, files, observed, modelsColl>>

\* lines 225-226, save_model_with_version 160-177
TrainSave(p) ==
  /\ pc[p] = "train_save"
  /\ loc' = [loc EXCEPT ![p].vid = clock]
  /\ files' = [files EXCEPT ![AuthclfPath(clock)] = Full(loc[p].art)]
  /\ Goto(p, "train_compare")
  /\ UNCHANGED <<clock, seq, stamps, meta, ret, pre, observed, modelsColl, promoLog>>

TrainSaveFails(p) ==
  /\ pc[p] = "train_save"
  /\ Raise(p)
  /\ UNCHANGED <<clock, seq, stamps, meta, files, pre, observed, modelsColl>>

\* lines 228-266: the promotion decision
\* what the comparison finds at models/current.joblib: no file (264-266), a
\* pipeline it can load and score (236-258), or one that raises (260-263)
Baselines ==
  IF ~Exists(CURRENT_MODEL) THEN {"absent"}
  ELSE IF IsComplete(files[CURRENT_MODEL]) THEN {"evaluated", "unevaluable"}
  ELSE {"unevaluable"}

TrainCompare(p, baselineF1s) ==
  /\ pc[p] = "train_compare"
  /\ \E b \in Baselines : \E current_f1 \in (IF b = "evaluated" THEN baselineF1s ELSE {0}) :
       LET l == [loc[p] EXCEPT !.baseline = b, !.curF1 = current_f1,
                               !.srcpath = AuthclfPath(loc[p].vid)]
           should_promote == IF b = "evaluated"
                             THEN ShouldPromote(loc[p].newF1, current_f1)
                             ELSE TRUE
       IN IF should_promote
          THEN loc' = [loc EXCEPT ![p] = l] /\ Goto(p, "copy_open") /\ UNCHANGED ret
          ELSE FinishTrain(p, l, FALSE, l.vid, "no_improvement")
  /\ UNCHANGED <<clock, seq, stamps, meta, files, pre, observed, modelsColl, promoLog>>

\* lines 273-289: record the promotion in the models collection and return
TrainInsert(p) ==
  /\ pc[p] = "train_insert"
  /\ modelsColl' = Append(modelsColl,
                     [version |-> loc[p].vid, path |-> loc[p].srcpath,
                      is_production |-> TRUE])
  /\ FinishTrain(p, loc[p], TRUE, loc[p].vid, "promoted")
  /\ UNCHANGED <<clock, seq, stamps, meta, files, pre, observed, promoLog>>

TrainInsertFails(p) ==
  /\ pc[p] = "train_insert"
  /\ Raise(p)
  /\ UNCHANGED <<clock, seq, stamps, meta, files, pre, observed, modelsColl>>

\* ---- how a caller obtains the trainer: `from trainer import
\* train_and_maybe_promote` (app.py 592, scheduler.py 34) runs trainer.py,
\* whose line 18 imports two names from features.py
FeaturesExports == {"_parse_ts", "extract_features"}
TrainerImports == {"extract_features", "features_to_dataframe_row"}

\* the import raises ImportError in the caller when a name is missing; the
\* steps of train_and_maybe_promote above are those of its body once called
ImportTrainer(p) ==
  /\ pc[p] = "idle"
  /\ pre' = [pre EXCEPT ![p] = Snapshot]
  /\ promoLog' = <<>>
  /\ ret' = [ret EXCEPT ![p] =
               [NoRet EXCEPT !.op = "import_trainer",
                             !.val = IF TrainerImports \subseteq FeaturesExports
                                     THEN "returned" ELSE "raised",
                             !.msg = IF TrainerImports \subseteq FeaturesExports
                                     THEN "imported" ELSE "import_error"]]
  /\ UNCHANGED <<clock, seq, stamps, meta, files, pc, loc, observed, modelsColl>>

\* a caller starts a call
CallStep(p, pairs, f1s) ==
  \/ SaveCall(p)
  \/ \E id \in Seconds : PromoteCall(p, id)
  \/ \E id \in Seconds : DeleteCall(p, id)
  \/ \E n \in pairs : TrainCall(p, n[1], n[2], f1s)
  \/ ImportTrainer(p)

\* a call in progress takes its next step
VersionStoreStep(p) ==
  \/ SaveDump(p)
  \/ SaveLoad(p)
  \/ SaveMetadata(p)
  \/ PromoteLoad(p)
  \/ PromoteMetadata(p)
  \/ DeleteLoad(p)
  \/ DeleteRemove(p)
  \/ DeleteMetadata(p)

SwapStep(p) ==
  \/ CopyOpen(p)
  \/ CopyWrite(p)
  \/ CopyFinish(p)
  \/ CopyFails(p)
  \/ Replace(p)
  \/ ReplaceFails(p)

TrainerStep(p, baselineF1s) ==
  \/ TrainSave(p)
  \/ TrainSaveFails(p)
  \/ TrainCompare(p, baselineF1s)
  \/ TrainInsert(p)
  \/ TrainInsertFails(p)

\* one caller at a time: the calls of the Version Store and the Trainer in
\* any order, each run to its end before the next starts
Next ==
  /\ UNCHANGED <<calls, engineVars, ingestVars, schedVars, backfillVars, evalVars, featVars, clientVars>>
  /\ \/ Tick
     \/ CallStep(1, SamplePairs, F1Values)
     \/ VersionStoreStep(1)
     \/ SwapStep(1)
     \/ TrainerStep(1, BaselineF1Values)
     \/ Crash(1)

Spec == Init /\ [][Next]_vars

\* the Version Store alone: model_versioning.py imports nothing of the
\* trainer, and the trainer never calls it
NextStore ==
  /\ UNCHANGED <<calls, engineVars, ingestVars, schedVars, backfillVars, evalVars, featVars, clientVars>>
  /\ \/ Tick
     \/ SaveCall(1)
     \/ \E id \in Seconds : PromoteCall(1, id)
     \/ \E id \in Seconds : DeleteCall(1, id)
     \/ VersionStoreStep(1)
     \/ SwapStep(1)
     \/ Crash(1)

SpecStore == Init /\ [][NextStore]_vars

\* the Trainer alone: training runs one after the other
NextTrain ==
  /\ UNCHANGED <<calls, engineVars, ingestVars, schedVars, backfillVars, evalVars, featVars, clientVars>>
  /\ \/ Tick
     \/ \E n \in SamplePairs : TrainCall(1, n[1], n[2], F1Values)
     \/ SwapStep(1)
     \/ TrainerStep(1, BaselineF1Values)
     \/ Crash(1)

SpecTrain == Init /\ [][NextTrain]_vars

\* two callers at once, from the state the first save of a version leaves:
\* a request handler on the event loop (any call) and the scheduler's worker
\* thread (scheduler.py 71-90: training runs only), and a reader of the
\* production artifact
Handler == 1
Worker == 2

InitConc ==
  /\ clock = 1
  /\ seq = 1
  /\ stamps = 1
  /\ meta = <<NewVersion(1, 1)>>
  /\ files = [p \in Paths |->
               IF p \in {VersionPath(1), CURRENT_MODEL} THEN Full(1) ELSE NoFile]
  /\ pc = [p \in Procs |-> "idle"]
  /\ loc = [p \in Procs |-> NoLoc]
  /\ ret = [p \in Procs |->
             IF p = 1 THEN [NoRet EXCEPT !.op = "save", !.vid = 1, !.val = "returned"]
             ELSE NoRet]
  /\ pre = [p \in Procs |->
             [meta |-> <<>>, files |-> [q \in Paths |-> NoFile], modelsColl |-> <<>>]]
  /\ observed = NoFile
  /\ modelsColl = <<>>
  /\ promoLog = <<>>
  /\ calls = [p \in Procs |-> 0]
  /\ EngineInit
  /\ IngestInit

ConcPairs == {<<5, 15>>, <<5, 10>>}
ConcF1 == {80, 83}
ConcBaselineF1 == {80}

NextConc ==
  \/ /\ UNCHANGED <<calls, engineVars, ingestVars, schedVars, backfillVars, evalVars, featVars, clientVars>>
     /\ \/ Tick
        \/ ReadProduction
        \/ VersionStoreStep(Handler)
        \/ \E p \in Procs : SwapStep(p)
        \/ \E p \in Procs : TrainerStep(p, ConcBaselineF1)
        \/ \E p \in Procs : Crash(p)
  \/ /\ calls[Handler] < MaxConcCalls
     /\ calls' = [calls EXCEPT ![Handler] = @ + 1]
     /\ UNCHANGED <<engineVars, ingestVars, schedVars, backfillVars, evalVars, featVars, clientVars>>
     /\ CallStep(Handler, ConcPairs, ConcF1)
  \/ /\ calls[Worker] < MaxConcCalls
     /\ calls' = [calls EXCEPT ![Worker] = @ + 1]
     /\ UNCHANGED <<engineVars, ingestVars, schedVars, backfillVars, evalVars, featVars, clientVars>>
     /\ \E n \in ConcPairs : TrainCall(Worker, n[1], n[2], ConcF1)

SpecConc == InitConc /\ [][NextConc]_vars

\* ======================================================================
\* The Prediction Engine on its own: reload, predict, set_threshold on the
\* singleton, over a blob store that holds whole, partial and missing files
\* ======================================================================
Partial(a) == SubSeq(Full(a), 1, ChunksPerFile - 1)
EnginePaths == {CURRENT_MODEL, VersionPath(1), AuthclfPath(1)}
Probabilities == {0, 49, 50, 85, 100}
Thresholds == {0, 50, 85, 100}

InitEngine ==
  /\ clock = 1 /\ seq = 0 /\ stamps = 0 /\ meta = <<>>
  /\ \E cur \in {NoFile, Full(1), Partial(1)} :
       \E ver \in {NoFile, Full(2), Partial(2)} :
         files = [p \in Paths |->
                   IF p = CURRENT_MODEL THEN cur
                   ELSE IF p = VersionPath(1) THEN ver ELSE NoFile]
  /\ pc = [p \in Procs |-> "idle"]
  /\ loc = [p \in Procs |-> NoLoc]
  /\ ret = [p \in Procs |-> NoRet]
  /\ pre = [p \in Procs |->
             [meta |-> <<>>, files |-> [q \in Paths |-> NoFile], modelsColl |-> <<>>]]
  /\ observed = NoFile
  /\ modelsColl = <<>>
  /\ promoLog = <<>>
  /\ calls = [p \in Procs |-> 0]
  /\ EngineInit
  /\ IngestInit

\* reload(path), lines 132-134
Reload(path) ==
  LET r == LoadModel(engine, path) IN
    /\ engine' = r.engine
    /\ engLast' = [NoEngLast EXCEPT !.op = "reload", !.path = path,
                                    !.ok = r.ok, !.pre = engine]
    /\ thresholdSet' = [thresholdSet EXCEPT
                          !.reloaded = IF r.ok THEN "ok" ELSE "failed"]

\* variant: a strict comparison
Label_Strict(proba, threshold) ==
  IF proba > threshold THEN "malicious" ELSE "benign"

\* line 90
Label(proba, threshold) ==
  IF proba >= threshold THEN "malicious" ELSE "benign"

\* predict(alert), lines 47-108: with no model it raises (62-63); a failure
\* of the feature extraction or of the inference gives the unknown result
\* (99-108); otherwise the label follows the probability of class 1
Predict(fails, proba) ==
  /\ engLast' =
       IF engine.model = 0
       THEN [NoEngLast EXCEPT !.op = "predict", !.raised = TRUE, !.pre = engine]
       ELSE IF fails
            THEN [NoEngLast EXCEPT !.op = "predict", !.error = TRUE,
                                   !.label = "unknown", !.score = 0,
                                   !.pre = engine]
            ELSE [NoEngLast EXCEPT !.op = "predict", !.proba = proba,
                                   !.label = Label(proba, engine.threshold),
                                   !.score = proba, !.pre = engine]
  /\ UNCHANGED <<engine, thresholdSet>>

\* set_threshold(t), lines 110-113
SetThreshold(t) ==
  /\ engine' = [engine EXCEPT !.threshold = t]
  /\ engLast' = [NoEngLast EXCEPT !.op = "set_threshold", !.pre = engine]
  /\ thresholdSet' = [t |-> t, reloaded |-> "none"]

NextEngine ==
  /\ UNCHANGED <<lifecycleVars, files, ingestVars, schedVars, backfillVars, evalVars, featVars, clientVars>>
  /\ \/ \E path \in EnginePaths \cup {NoPath} : Reload(path)
     \/ \E proba \in Probabilities : Predict(FALSE, proba)
     \/ Predict(TRUE, 0)
     \/ \E t \in Thresholds : SetThreshold(t)

SpecEngine == InitEngine /\ [][NextEngine]_vars

\* ======================================================================
\* Ingestion: POST /events one request at a time, under each settings
\* document that steers the auto-classification
\* ======================================================================
storeVars == <<clock, seq, stamps, meta, files, pc, loc, ret, pre, observed,
               modelsColl, promoLog>>

\* raw alerts: with an own id or without (empty, blank), with a timestamp in
\* +0000 notation, without one, or with one that does not parse
BlankIds == {"", " "}
Payload(id, ts) ==
  [NoPayload EXCEPT !.id = id, !.timestamp = ts, !.agent = 1, !.rule = 1,
                    !.log_head = 1, !.log_tail = 1]
Payloads ==
  {Payload("a1", NoTimestamp), Payload("", <<"iso", 1, "+0000">>),
   Payload("", NoTimestamp), Payload(" ", <<"bad", 0, "">>)}

\* normalize_timestamp, db.py 99-130: the value stored as timestamp
NormalizeTimestamp(ts) ==
  IF ts[1] = "none" THEN NowTimestamp
  ELSE IF ts[1] = "iso" THEN <<"iso", ts[2], "Z">>
  ELSE NowTimestamp

\* compute_id, db.py 78-96; the digest is one-to-one on the composite
ComputeId(alert) ==
  IF alert.id \notin BlankIds
  THEN [kind |-> "own", own |-> alert.id, composite |-> NoComposite]
  ELSE [kind |-> "sha1", own |-> "",
        composite |-> <<alert.timestamp, alert.agent, alert.rule, alert.log_head>>]

\* the step of the handler that fails, if the handler reaches it
Faults == {"none", "insert", "get_model", "insert_prediction", "get_settings",
           "replace_malicious", "update_alert"}
IngestProbabilities == {49, 85}

\* the ml_settings document the requests find: none, auto_classify off, on
\* without a confidence_threshold, on with threshold 1.0
SettingsValues ==
  {NoSettings,
   [NoSettings EXCEPT !.present = TRUE],
   [NoSettings EXCEPT !.present = TRUE, !.auto_classify = TRUE],
   [NoSettings EXCEPT !.present = TRUE, !.auto_classify = TRUE,
                      !.confidence_threshold = 100]}

\* variant: the configured confidence threshold is ignored
ConfidenceThreshold_AlwaysDefault(st) == DEFAULT_CONFIDENCE

\* settings.get("confidence_threshold", 0.85), app.py 401
ConfidenceThreshold(st) ==
  IF st.confidence_threshold = Unset THEN DEFAULT_CONFIDENCE
  ELSE st.confidence_threshold

\* variant: a duplicate key is returned as an error
IngestStatus_DuplicateError(inserted) == IF inserted = "inserted" THEN "ok" ELSE "error"

\* app.py 365-367 and 432-436: what the request returns
IngestStatus(inserted) == IF inserted = "failed" THEN "error" ELSE "ok"

\* POST /events, app.py 335-436 with insert_alert, db.py 133-161
Ingest(payload, fault, predFails, proba) ==
  /\ ingested < MaxIngests
  /\ ingested' = ingested + 1
  /\ LET alert == [payload EXCEPT !.timestamp = NormalizeTimestamp(payload.timestamp)]
         doc_id == ComputeId(alert)
         doc == [_id |-> doc_id, raw |-> payload, timestamp |-> alert.timestamp,
                 predicted |-> FALSE, label |-> "none", auto_classified |-> FALSE]
         inserted == IF fault = "insert" THEN "failed"
                     ELSE IF \E d \in alerts : d._id = doc_id THEN "duplicate"
                     ELSE "inserted"
         a1 == IF inserted = "inserted" THEN alerts \cup {doc} ELSE alerts
         predOk == /\ inserted # "failed"
                   /\ fault # "get_model"
                   /\ engine.model # 0
                   /\ ~predFails
         label == Label(proba, engine.threshold)
         storedPred == predOk /\ fault # "insert_prediction"
         a2 == IF storedPred
               THEN {IF d._id = doc_id THEN [d EXCEPT !.predicted = TRUE] ELSE d : d \in a1}
               ELSE a1
         classify == /\ storedPred
                     /\ fault # "get_settings"
                     /\ settings.present
                     /\ settings.auto_classify
                     /\ label = "malicious"
                     /\ proba >= ConfidenceThreshold(settings)
         replaced == classify /\ fault # "replace_malicious"
         updated == replaced /\ fault # "update_alert"
         failed == IF \/ fault \in {"insert", "get_model"}
                      \/ fault = "insert_prediction" /\ predOk
                      \/ fault = "get_settings" /\ storedPred
                      \/ fault = "replace_malicious" /\ classify
                      \/ fault = "update_alert" /\ replaced
                   THEN fault ELSE "none"
     IN /\ malicious' =
             IF replaced
             THEN {d \in malicious : d._id # doc_id}
                    \cup {[doc EXCEPT !.label = "malicious", !.auto_classified = TRUE]}
             ELSE malicious
        /\ alerts' =
             IF updated
             THEN {IF d._id = doc_id
                   THEN [d EXCEPT !.label = "malicious", !.auto_classified = TRUE]
                   ELSE d : d \in a2}
             ELSE a2
        /\ ingLast' = [payload |-> payload, id |-> doc_id,
                       status |-> IngestStatus(inserted), inserted |-> inserted,
                       fault |-> failed, predicted |-> predOk,
                       label |-> IF predOk THEN label ELSE "none",
                       score |-> IF predOk THEN proba ELSE 0,
                       settings |-> settings,
                       preAlerts |-> alerts, preMalicious |-> malicious]
  /\ clsLast' = NoClsLast
  /\ UNCHANGED <<storeVars, engineVars, settings, safe>>

\* POST /classify, app.py 225-301; body._id and body.label as sent
UnknownDocId == [kind |-> "own", own |-> "zz", composite |-> NoComposite]
ClassifyIds == {d._id : d \in alerts} \cup {UnknownDocId, NoDocId}
ClassifyLabels == {"malicious", "safe", "benign"}
ClassifyFaults == {"none", "find_one", "delete_one", "replace_one", "update_one"}

\* the collection without the document of that _id
DeleteOne(coll, id) == {d \in coll : d._id # id}

\* replace_one(..., upsert=True)
ReplaceOne(coll, doc) == DeleteOne(coll, doc._id) \cup {doc}

\* update_one with $set of the label
SetLabel(coll, id, label) ==
  {IF d._id = id THEN [d EXCEPT !.label = label] ELSE d : d \in coll}

\* variant: the alert is not looked up
ClassifyRefusal_NoLookup(id, label) ==
  IF id = NoDocId THEN 400
  ELSE IF label \notin {"malicious", "safe"} THEN 400
  ELSE 0

\* lines 241-245 and 254-255: the status the request is refused with, 0 if
\* it is not
ClassifyRefusal(id, label) ==
  IF id = NoDocId THEN 400
  ELSE IF label \notin {"malicious", "safe"} THEN 400
  ELSE IF ~\E d \in alerts : d._id = id THEN 404
  ELSE 0

Classify(id, label, fault) ==
  /\ ingested < MaxIngests
  /\ ingested' = ingested + 1
  /\ LET refused == IF fault = "find_one" /\ id # NoDocId
                                         /\ label \in {"malicious", "safe"}
                    THEN 500 ELSE ClassifyRefusal(id, label)
         found == {d \in alerts : d._id = id}
         alert == IF found = {} THEN [_id |-> id, label |-> label]
                  ELSE [(CHOOSE d \in found : TRUE) EXCEPT !.label = label]
         target == IF label = "malicious" THEN malicious ELSE safe
         opposite == IF label = "malicious" THEN safe ELSE malicious
         deleted == refused = 0 /\ fault # "delete_one"
         replaced == deleted /\ fault # "replace_one"
         updated == replaced /\ fault # "update_one"
         opposite1 == IF deleted THEN DeleteOne(opposite, id) ELSE opposite
         target1 == IF replaced THEN ReplaceOne(target, alert) ELSE target
     IN /\ malicious' = IF label = "malicious" THEN target1 ELSE opposite1
        /\ safe' = IF label = "malicious" THEN opposite1 ELSE target1
        /\ alerts' = IF updated THEN SetLabel(alerts, id, label) ELSE alerts
        /\ clsLast' = [id |-> id, label |-> label,
                       status |-> IF refused # 0 THEN refused
                                  ELSE IF updated THEN 200 ELSE 500,
                       preAlerts |-> alerts, preMalicious |-> malicious,
                       preSafe |-> safe]
  /\ ingLast' = NoIngLast
  /\ UNCHANGED <<storeVars, engineVars, settings>>

InitIngest ==
  /\ clock = 1 /\ seq = 0 /\ stamps = 0 /\ meta = <<>>
  /\ \E cur \in {NoFile, Full(1)} :
       files = [p \in Paths |-> IF p = CURRENT_MODEL THEN cur ELSE NoFile]
  /\ settings \in (IF Exists(CURRENT_MODEL) THEN SettingsValues ELSE {NoSettings})
  /\ pc = [p \in Procs |-> "idle"]
  /\ loc = [p \in Procs |-> NoLoc]
  /\ ret = [p \in Procs |-> NoRet]
  /\ pre = [p \in Procs |->
             [meta |-> <<>>, files |-> [q \in Paths |-> NoFile], modelsColl |-> <<>>]]
  /\ observed = NoFile
  /\ modelsColl = <<>>
  /\ promoLog = <<>>
  /\ calls = [p \in Procs |-> 0]
  /\ EngineInit
  /\ SchedInit
  /\ alerts = {}
  /\ malicious = {}
  /\ safe = {}
  /\ clsLast = NoClsLast
  /\ ingLast = NoIngLast
  /\ ingested = 0

NextIngest ==
  /\ UNCHANGED <<calls, schedVars, backfillVars, evalVars, featVars, clientVars>>
  /\ \/ \E payload \in Payloads, fault \in Faults :
          \/ Ingest(payload, fault, TRUE, 0)
          \/ \E proba \in IngestProbabilities : Ingest(payload, fault, FALSE, proba)
     \/ \E id \in ClassifyIds, label \in ClassifyLabels, fault \in ClassifyFaults :
          Classify(id, label, fault)

SpecIngest == InitIngest /\ [][NextIngest]_vars

\* ======================================================================
\* The Scheduler: start_scheduler, PUT /api/settings, stop_scheduler
\* ======================================================================
JOB_ID == "model_retrain"
DEFAULT_INTERVAL == 24

\* get_default_settings, scheduler.py 93-101
DefaultSettings ==
  [NoSettings EXCEPT !.present = TRUE, !.retrain_interval_value = DEFAULT_INTERVAL,
                     !.retrain_interval_unit = "hours",
                     !.confidence_threshold = DEFAULT_CONFIDENCE,
                     !.scheduler_enabled = "true"]

\* bodies of PUT /api/settings: the keys they carry
NoPatch ==
  [auto_classify |-> "unset", confidence_threshold |-> Unset,
   retrain_interval_hours |-> Unset, retrain_interval_value |-> Unset,
   retrain_interval_unit |-> "unset", scheduler_enabled |-> "unset"]
Patches ==
  {[NoPatch EXCEPT !.retrain_interval_hours = 12],
   [NoPatch EXCEPT !.retrain_interval_value = 30, !.retrain_interval_unit = "minutes"],
   [NoPatch EXCEPT !.retrain_interval_value = 2, !.retrain_interval_unit = "hours"],
   [NoPatch EXCEPT !.scheduler_enabled = "false"],
   [NoPatch EXCEPT !.scheduler_enabled = "true"],
   [NoPatch EXCEPT !.auto_classify = "true"],
   [NoPatch EXCEPT !.confidence_threshold = 85]}

\* update_settings, db.py 186-195: $set of the patch, upsert
ApplyPatch(st, patch) ==
  [present |-> TRUE,
   auto_classify |-> IF patch.auto_classify = "unset" THEN st.auto_classify
                     ELSE patch.auto_classify = "true",
   confidence_threshold |-> IF patch.confidence_threshold = Unset
                            THEN st.confidence_threshold ELSE patch.confidence_threshold,
   retrain_interval_hours |-> IF patch.retrain_interval_hours = Unset
                              THEN st.retrain_interval_hours
                              ELSE patch.retrain_interval_hours,
   retrain_interval_value |-> IF patch.retrain_interval_value = Unset
                              THEN st.retrain_interval_value
                              ELSE patch.retrain_interval_value,
   retrain_interval_unit |-> IF patch.retrain_interval_unit = "unset"
                             THEN st.retrain_interval_unit
                             ELSE patch.retrain_interval_unit,
   scheduler_enabled |-> IF patch.scheduler_enabled = "unset"
                         THEN st.scheduler_enabled ELSE patch.scheduler_enabled]

\* app.py 486-489: the patch carries a key of the schedule
TouchesSchedule(patch) ==
  \/ patch.retrain_interval_value # Unset
  \/ patch.retrain_interval_unit # "unset"
  \/ patch.retrain_interval_hours # Unset
  \/ patch.scheduler_enabled # "unset"

\* GET /api/settings, app.py 445-463: the interval and unit the application
\* reports as its Settings
ShownInterval(st) ==
  IF ~st.present THEN DEFAULT_INTERVAL
  ELSE IF st.retrain_interval_value # Unset THEN st.retrain_interval_value
  ELSE IF st.retrain_interval_hours # Unset THEN st.retrain_interval_hours
  ELSE DEFAULT_INTERVAL
ShownUnit(st) ==
  IF ~st.present THEN "hours"
  ELSE IF st.retrain_interval_value = Unset /\ st.retrain_interval_hours # Unset
       THEN "hours"
  ELSE IF st.retrain_interval_unit # "unset" THEN st.retrain_interval_unit
  ELSE "hours"
ShownEnabled(st) == ~st.present \/ st.scheduler_enabled # "false"

\* get_settings_from_db, scheduler.py 104-114
SettingsFromDb(st, fails) == IF fails \/ ~st.present THEN DefaultSettings ELSE st

\* the job store: remove_job, and add_job(..., replace_existing=True)
RemoveJob(jobs, id) == SelectSeq(jobs, LAMBDA j : j.id # id)
AddJob(jobs, job) ==
  IF \E i \in DOMAIN jobs : jobs[i].id = job.id
  THEN [i \in DOMAIN jobs |-> IF jobs[i].id = job.id THEN job ELSE jobs[i]]
  ELSE Append(jobs, job)

\* scheduler.py 124-132: the legacy key wins when the document has it
JobInterval(st) ==
  IF st.retrain_interval_hours # Unset THEN st.retrain_interval_hours
  ELSE IF st.retrain_interval_value # Unset THEN st.retrain_interval_value
  ELSE DEFAULT_INTERVAL
JobUnit(st) ==
  IF st.retrain_interval_hours # Unset THEN "hours"
  ELSE IF st.retrain_interval_unit = "minutes" THEN "minutes" ELSE "hours"

\* get_scheduler, lines 16-23, then reschedule_from_settings, lines 117-160:
\* the scheduler it leaves
Rescheduled(sched, st, fails) ==
  LET read == SettingsFromDb(st, fails)
      jobs0 == IF sched.running THEN sched.jobs ELSE <<>>
      jobs1 == RemoveJob(jobs0, JOB_ID)
  IN [running |-> TRUE,
      jobs |-> IF read.scheduler_enabled # "false"
               THEN AddJob(jobs1, [id |-> JOB_ID, interval |-> JobInterval(read),
                                   unit |-> JobUnit(read)])
               ELSE jobs1]

\* start_scheduler, lines 163-173 (app.py 136-138)
StartScheduler(fails) ==
  /\ scheduler' = Rescheduled(scheduler, settings, fails)
  /\ schedLast' = [op |-> "start", status |-> "ok", rescheduled |-> TRUE,
                   fault |-> IF fails THEN "get_settings" ELSE "none"]
  /\ UNCHANGED <<settings, engineVars>>

\* PUT /api/settings, app.py 466-503; the write of the patch or the read of
\* the settings inside the reschedule can fail
UpdateSettings(patch, fault) ==
  IF fault = "update_settings"
  THEN /\ schedLast' = [op |-> "update", status |-> "error", rescheduled |-> FALSE,
                        fault |-> fault]
       /\ UNCHANGED <<settings, scheduler, engineVars>>
  ELSE /\ settings' = ApplyPatch(settings, patch)
       /\ IF patch.confidence_threshold # Unset
          THEN SetThreshold(patch.confidence_threshold)
          ELSE UNCHANGED engineVars
       /\ scheduler' = IF TouchesSchedule(patch)
                       THEN Rescheduled(scheduler, settings', fault = "get_settings")
                       ELSE scheduler
       /\ schedLast' = [op |-> "update", status |-> "ok",
                        rescheduled |-> TouchesSchedule(patch),
                        fault |-> IF TouchesSchedule(patch) THEN fault ELSE "none"]

\* stop_scheduler, lines 176-182 (app.py 152-154)
StopScheduler ==
  /\ scheduler' = IF scheduler.running THEN NoScheduler ELSE scheduler
  /\ schedLast' = [op |-> "stop", status |-> "ok", rescheduled |-> FALSE,
                   fault |-> "none"]
  /\ UNCHANGED <<settings, engineVars>>

InitSched ==
  /\ clock = 1 /\ seq = 0 /\ stamps = 0 /\ meta = <<>>
  /\ files = [p \in Paths |-> NoFile]
  /\ pc = [p \in Procs |-> "idle"]
  /\ loc = [p \in Procs |-> NoLoc]
  /\ ret = [p \in Procs |-> NoRet]
  /\ pre = [p \in Procs |->
             [meta |-> <<>>, files |-> [q \in Paths |-> NoFile], modelsColl |-> <<>>]]
  /\ observed = NoFile
  /\ modelsColl = <<>>
  /\ promoLog = <<>>
  /\ calls = [p \in Procs |-> 0]
  /\ EngineInit
  /\ IngestInit

NextSched ==
  /\ UNCHANGED <<storeVars, calls, alerts, malicious, safe, clsLast, ingLast, ingested,
                 backfillVars, evalVars, featVars, clientVars>>
  /\ \/ \E fails \in BOOLEAN : StartScheduler(fails)
     \/ \E patch \in Patches, fault \in {"none", "update_settings", "get_settings"} :
          UpdateSettings(patch, fault)
     \/ StopScheduler

SpecSched == InitSched /\ [][NextSched]_vars

\* startup_event of a new process, app.py 103-143: the store keeps the
\* settings; get_model() constructs the engine (model_wrapper.py 17-22,
\* 141-146) and start_scheduler builds the job from the settings
StartupEvent(fails) ==
  /\ engine' = Constructed
  /\ engLast' = [NoEngLast EXCEPT !.op = "startup", !.pre = engine]
  /\ thresholdSet' = [t |-> DEFAULT_THRESHOLD, reloaded |-> "none"]
  /\ scheduler' = Rescheduled(NoScheduler, settings, fails)
  /\ schedLast' = [op |-> "start", status |-> "ok", rescheduled |-> TRUE,
                   fault |-> IF fails THEN "get_settings" ELSE "none"]
  /\ UNCHANGED settings

\* the settings are updated, the engine reloads, the process restarts
NextRestart ==
  /\ UNCHANGED <<storeVars, calls, alerts, malicious, safe, clsLast, ingLast, ingested,
                 backfillVars, evalVars, featVars, clientVars>>
  /\ \/ \E patch \in Patches, fault \in {"none", "update_settings", "get_settings"} :
          UpdateSettings(patch, fault)
     \/ /\ Reload(NoPath)
        /\ schedLast' = [NoSchedLast EXCEPT !.op = "reload"]
        /\ UNCHANGED <<settings, scheduler>>
     \/ \E fails \in BOOLEAN : StartupEvent(fails)

SpecRestart == InitSched /\ [][NextRestart]_vars

\* ======================================================================
\* Backfill: backfill_predictions over the alerts collection
\* ======================================================================
OldVersion == <<"old", 0>>
AlertIds == 1..MaxAlerts

\* an alert of the corpus, with the prediction fields an earlier scoring
\* left or without any
CorpusDoc(id, predicted) ==
  [_id |-> id,
   predicted_label |-> IF predicted THEN "benign" ELSE "none",
   predicted_score |-> IF predicted THEN 10 ELSE 0,
   model_version |-> IF predicted THEN OldVersion ELSE NoPath,
   predicted_at |-> IF predicted THEN "before" ELSE "none"]

\* lines 68-73: the item of the batch for an alert the engine scored
Item(id) ==
  [_id |-> id, predicted_label |-> "malicious", predicted_score |-> 90,
   model_version |-> engine.version]

\* update_one of _update_batch, lines 117-125
UpdateOne(coll, item) ==
  {IF d._id = item._id
   THEN [d EXCEPT !.predicted_label = item.predicted_label,
                  !.predicted_score = item.predicted_score,
                  !.model_version = item.model_version,
                  !.predicted_at = "backfill"]
   ELSE d : d \in coll}

\* _update_batch, lines 112-125: the items in order; the failAt-th write of
\* the run raises
RECURSIVE UpdateBatch(_, _, _, _)
UpdateBatch(coll, batch, writes, failAt) ==
  IF batch = <<>> THEN [coll |-> coll, writes |-> writes, raised |-> FALSE]
  ELSE IF writes + 1 = failAt
       THEN [coll |-> coll, writes |-> writes + 1, raised |-> TRUE]
       ELSE UpdateBatch(UpdateOne(coll, Head(batch)), Tail(batch), writes + 1, failAt)

\* the ids of the items a call of _update_batch wrote before it returned or
\* raised
WrittenBy(batch, before, u) ==
  {batch[j]._id : j \in 1..(u.writes - before - (IF u.raised THEN 1 ELSE 0))}

\* lines 58-89: the loop from alert i on and the flush of the last batch;
\* held is the largest number of items the batch list has held, written the
\* alerts the run has written
RECURSIVE BackfillLoop(_, _, _, _)
BackfillLoop(st, i, outcomes, failAt) ==
  IF i > Len(outcomes)
  THEN LET u == UpdateBatch(st.coll, st.batch, st.writes, failAt)
           w == st.written \cup WrittenBy(st.batch, st.writes, u)
       IN IF u.raised
          THEN [st EXCEPT !.coll = u.coll, !.written = w, !.aborted = TRUE]
          ELSE [st EXCEPT !.coll = u.coll, !.written = w,
                          !.processed = @ + Len(st.batch)]
  ELSE IF outcomes[i] = "error"
       THEN BackfillLoop([st EXCEPT !.errors = @ + 1], i + 1, outcomes, failAt)
       ELSE LET batch == Append(st.batch, Item(i))
                held == IF Len(batch) > st.held THEN Len(batch) ELSE st.held
            IN IF Len(batch) >= BatchSize
               THEN LET u == UpdateBatch(st.coll, batch, st.writes, failAt)
                        w == st.written \cup WrittenBy(batch, st.writes, u)
                    IN IF u.raised
                       THEN BackfillLoop([st EXCEPT !.coll = u.coll, !.writes = u.writes,
                                                    !.batch = batch, !.held = held,
                                                    !.written = w, !.errors = @ + 1],
                                         i + 1, outcomes, failAt)
                       ELSE BackfillLoop([st EXCEPT !.coll = u.coll, !.writes = u.writes,
                                                    !.batch = <<>>, !.held = held,
                                                    !.written = w,
                                                    !.processed = @ + Len(batch)],
                                         i + 1, outcomes, failAt)
               ELSE BackfillLoop([st EXCEPT !.batch = batch, !.held = held],
                                 i + 1, outcomes, failAt)

\* backfill_predictions(force), lines 12-110; outcomes[i] is what
\* model.predict gives for alert i
Backfill(force, outcomes, failAt) ==
  /\ IF engine.model = 0
     THEN /\ bfLast' = [op |-> "backfill", force |-> force, outcomes |-> outcomes,
                        failAt |-> 0, processed |-> 0, errors |-> 0,
                        message |-> "not_loaded", preAlerts |-> alerts,
                        held |-> 0, written |-> {}]
          /\ UNCHANGED alerts
     ELSE LET r == BackfillLoop([coll |-> alerts, batch |-> <<>>, processed |-> 0,
                                 errors |-> 0, writes |-> 0, aborted |-> FALSE,
                                 held |-> 0, written |-> {}],
                                1, outcomes, failAt)
          IN /\ alerts' = r.coll
             /\ bfLast' = [op |-> "backfill", force |-> force, outcomes |-> outcomes,
                           failAt |-> IF r.writes >= failAt \/ r.aborted THEN failAt ELSE 0,
                           processed |-> IF r.aborted THEN 0 ELSE r.processed,
                           errors |-> IF r.aborted THEN 0 ELSE r.errors,
                           message |-> IF r.aborted THEN "failed" ELSE "completed",
                           preAlerts |-> alerts,
                           held |-> r.held, written |-> r.written]
  /\ UNCHANGED <<storeVars, calls, engineVars, schedVars, malicious, safe, clsLast,
                 settings, ingLast, ingested, evalVars, featVars, clientVars>>

InitBackfill ==
  /\ clock = 1 /\ seq = 0 /\ stamps = 0 /\ meta = <<>>
  /\ \E cur \in {NoFile, Full(1)} :
       files = [p \in Paths |-> IF p = CURRENT_MODEL THEN cur ELSE NoFile]
  /\ pc = [p \in Procs |-> "idle"]
  /\ loc = [p \in Procs |-> NoLoc]
  /\ ret = [p \in Procs |-> NoRet]
  /\ pre = [p \in Procs |->
             [meta |-> <<>>, files |-> [q \in Paths |-> NoFile], modelsColl |-> <<>>]]
  /\ observed = NoFile
  /\ modelsColl = <<>>
  /\ promoLog = <<>>
  /\ calls = [p \in Procs |-> 0]
  /\ EngineInit
  /\ SchedInit
  /\ \E predicted \in SUBSET AlertIds :
       alerts = {CorpusDoc(id, id \in predicted) : id \in AlertIds}
  /\ malicious = {} /\ safe = {} /\ clsLast = NoClsLast
  /\ settings = NoSettings /\ ingLast = NoIngLast /\ ingested = 0

NextBackfill ==
  \E force \in BOOLEAN, outcomes \in [AlertIds -> {"ok", "error"}],
     failAt \in 0..MaxAlerts :
    Backfill(force, outcomes, failAt)

SpecBackfill == InitBackfill /\ [][NextBackfill]_vars

\* ======================================================================
\* GET /ml/evaluate (app.py 772-910)
\* ======================================================================
\* predicted_score in hundredths
EvalScores == {20, 60, 90}
EvalLabels == {"malicious", "safe", "none"}
EvalPredicted == {"malicious", "benign", "none"}

\* an alert of the evaluated corpus; "none" is a field the document lacks
EvalDoc(id, label, predicted, score) ==
  [_id |-> id, label |-> label, predicted_label |-> predicted,
   predicted_score |-> score]

\* the filter of find, lines 797-800, in cursor (_id) order
RECURSIVE EvalCursor(_, _)
EvalCursor(coll, i) ==
  IF i > MaxAlerts THEN <<>>
  ELSE LET here == {d \in coll : d._id = i /\ d.label # "none"
                                           /\ d.predicted_label # "none"}
       IN (IF here = {} THEN <<>> ELSE <<CHOOSE d \in here : TRUE>>)
            \o EvalCursor(coll, i + 1)

\* lines 815-816
HumanBinary(d) == IF d.label = "malicious" THEN 1 ELSE 0
PredBinary(d) == IF d.predicted_label = "malicious" THEN 1 ELSE 0

\* the records of a sequence with the given pair of binary labels
CountPairs(docs, t, p) ==
  Len(SelectSeq(docs, LAMBDA d : HumanBinary(d) = t /\ PredBinary(d) = p))

\* confusion_matrix(y_true, y_pred), line 852: one row and one column per
\* label that occurs in y_true or y_pred, labels ascending
ConfusionMatrix(docs) ==
  LET labels == {HumanBinary(docs[i]) : i \in DOMAIN docs}
                  \cup {PredBinary(docs[i]) : i \in DOMAIN docs}
      lo == CHOOSE l \in labels : \A m \in labels : l <= m
      hi == CHOOSE l \in labels : \A m \in labels : l >= m
  IN IF Cardinality(labels) = 1
     THEN <<<<CountPairs(docs, lo, lo)>>>>
     ELSE <<<<CountPairs(docs, lo, lo), CountPairs(docs, lo, hi)>>,
            <<CountPairs(docs, hi, lo), CountPairs(docs, hi, hi)>>>>

\* lines 872-877: the four cells read from the matrix by position
ConfusionCells(cm) ==
  [true_negatives |-> IF Len(cm) > 0 THEN cm[1][1] ELSE 0,
   false_positives |-> IF Len(cm) > 1 THEN cm[1][2] ELSE 0,
   false_negatives |-> IF Len(cm) > 1 THEN cm[2][1] ELSE 0,
   true_positives |-> IF Len(cm) > 1 THEN cm[2][2] ELSE 0]

\* the sort key of line 894, in hundredths
Confidence(d) == IF d.predicted_score >= 50 THEN d.predicted_score - 50
                 ELSE 50 - d.predicted_score

\* list.sort(key, reverse=True), line 894: stable, largest key first
RECURSIVE SortMisclassified(_)
SortMisclassified(docs) ==
  IF docs = <<>> THEN <<>>
  ELSE LET first == CHOOSE i \in DOMAIN docs :
                      /\ \A j \in DOMAIN docs : Confidence(docs[j]) <= Confidence(docs[i])
                      /\ \A j \in 1..(i - 1) : Confidence(docs[j]) < Confidence(docs[i])
       IN <<docs[first]>>
            \o SortMisclassified(SubSeq(docs, 1, first - 1)
                                   \o SubSeq(docs, first + 1, Len(docs)))

\* evaluate_model, lines 772-910; accuracy is the pair <<correct, total>>
EvaluateModel ==
  /\ evLast.op = "none"
  /\ LET docs == EvalCursor(alerts, 1)
         correct == CountPairs(docs, 1, 1) + CountPairs(docs, 0, 0)
     IN evLast' =
          IF docs = <<>>
          THEN [op |-> "evaluate", evaluated |-> 0, docs |-> docs]
          ELSE [op |-> "evaluate", evaluated |-> Len(docs), docs |-> docs,
                accuracy |-> <<correct, Len(docs)>>,
                correct |-> correct,
                incorrect |-> Len(docs) - correct,
                confusion_matrix |-> ConfusionCells(ConfusionMatrix(docs)),
                misclassified |->
                  SortMisclassified(
                    SelectSeq(docs, LAMBDA d : HumanBinary(d) # PredBinary(d)))]
  /\ UNCHANGED <<storeVars, calls, engineVars, ingestVars, schedVars, backfillVars,
                 featVars, clientVars>>

InitEval ==
  /\ clock = 1 /\ seq = 0 /\ stamps = 0 /\ meta = <<>>
  /\ files = [p \in Paths |-> NoFile]
  /\ pc = [p \in Procs |-> "idle"]
  /\ loc = [p \in Procs |-> NoLoc]
  /\ ret = [p \in Procs |-> NoRet]
  /\ pre = [p \in Procs |->
             [meta |-> <<>>, files |-> [q \in Paths |-> NoFile], modelsColl |-> <<>>]]
  /\ observed = NoFile
  /\ modelsColl = <<>>
  /\ promoLog = <<>>
  /\ calls = [p \in Procs |-> 0]
  /\ EngineInit
  /\ SchedInit
  /\ \E n \in 0..MaxAlerts :
       \E label \in [1..n -> EvalLabels], predicted \in [1..n -> EvalPredicted],
          score \in [1..n -> EvalScores] :
         alerts = {EvalDoc(id, label[id], predicted[id], score[id]) : id \in 1..n}
  /\ malicious = {} /\ safe = {} /\ clsLast = NoClsLast
  /\ settings = NoSettings /\ ingLast = NoIngLast /\ ingested = 0

NextEval == EvaluateModel

SpecEval == InitEval /\ [][NextEval]_vars

\* ======================================================================
\* extract_features (features.py)
\* ======================================================================
\* A JSON value: its type and its text. A mapping is a record of such
\* values; rule.level and rule.groups are the fields rule_level and
\* rule_groups of the mapping.
Missing == [t |-> "missing", v |-> <<>>]
Null == [t |-> "null", v |-> <<>>]
Str(s) == [t |-> "str", v |-> <<s>>]
Number(s) == [t |-> "int", v |-> <<s>>]
List(items) == [t |-> "list", v |-> items]
ListOfNumbers(items) == [t |-> "list_of_int", v |-> items]
Named(s) == [t |-> "map", v |-> <<s>>]

EmptyFields ==
  [agent |-> Missing, data |-> Missing, decoder |-> Missing, predecoder |-> Missing,
   rule_level |-> Missing, rule_groups |-> Missing, timestamp |-> Missing]

\* the alert as received: its own fields and its _source field
FlatAlert(fields) == [top |-> fields, _source |-> [t |-> "missing", fields |-> EmptyFields]]
WrappedAlert(fields) == [top |-> EmptyFields, _source |-> [t |-> "map", fields |-> fields]]
OddAlert(t) == [top |-> EmptyFields, _source |-> [t |-> t, fields |-> EmptyFields]]

\* datetime.now(timezone.utc): the clock of this behaviour counts hours
Now == [hour |-> clock % 24, weekday |-> (clock \div 24) % 7]

\* _parse_ts, lines 9-26; a timestamp text is <<date and time, zone>>
WazuhStamp == <<"2025-09-23T17:48:19.409", "+0000">>
ZuluStamp == <<"2025-09-23T17:48:19.409", "Z">>
ParseTs(ts, now) ==
  LET zone == IF ts[2] \in {"+0000", "Z"} THEN "+00:00" ELSE ts[2] IN
    IF ts[1] = "2025-09-23T17:48:19.409" /\ zone \in {"+00:00", ""}
    THEN [hour |-> 17, weekday |-> 1]
    ELSE now

\* int(x), line 76
IntOf(x) ==
  CASE x.t = "missing" -> 0
    [] x.t = "int" /\ x.v = <<"3">> -> 3
    [] x.t = "str" /\ x.v = <<"7">> -> 7
    [] OTHER -> Unset

\* ";".join(groups), line 61
RECURSIVE Join(_)
Join(items) ==
  IF Len(items) <= 1 THEN items
  ELSE <<Head(items), ";">> \o Join(Tail(items))

\* d.get("name", "") of (x or {}), lines 48-52 and 71-74
NameOf(x) == IF x.t = "map" THEN x.v ELSE <<>>

NoFeatures ==
  [agent_name |-> <<>>, srcuser |-> <<>>, decoder_name |-> <<>>, program_name |-> <<>>,
   rule_groups |-> <<>>, rule_level |-> 0, hour_of_day |-> 0, day_of_week |-> 0,
   success |-> 0]

\* what makes a line of extract_features raise
FeaturesRaise(alert) ==
  LET source == IF alert._source.t = "missing"
                THEN [t |-> "map", fields |-> alert.top] ELSE alert._source
      f == source.fields
  IN \/ source.t # "map"                                       \* line 48
     \/ \E k \in {"agent", "data", "decoder", "predecoder"} :  \* 71-74
          f[k].t \in {"str", "int"}
     \/ f.timestamp.t = "int"                                  \* 17
     \/ f.rule_groups.t = "list_of_int"                        \* 61
     \/ f.rule_level.t = "null"                                \* 76
     \/ (f.rule_level.t = "str" /\ IntOf(f.rule_level) = Unset)

\* extract_features(alert), lines 29-82, called when the clock shows now
Features(alert, now) ==
  LET source == IF alert._source.t = "missing"
                THEN [t |-> "map", fields |-> alert.top] ELSE alert._source
      f == source.fields
      dt == IF f.timestamp.t = "str" /\ f.timestamp.v # <<"", "">>
            THEN ParseTs(f.timestamp.v, now) ELSE now
      groups_str == CASE f.rule_groups.t = "list" -> Join(f.rule_groups.v)
                      [] f.rule_groups.t = "missing" -> <<>>
                      [] f.rule_groups.t = "null" -> <<"None">>
                      [] OTHER -> f.rule_groups.v
  IN IF FeaturesRaise(alert)
     THEN [raised |-> TRUE, features |-> NoFeatures]
     ELSE [raised |-> FALSE,
           features |->
             [agent_name |-> NameOf(f.agent), srcuser |-> NameOf(f.data),
              decoder_name |-> NameOf(f.decoder),
              program_name |-> NameOf(f.predecoder),
              rule_groups |-> groups_str,
              rule_level |-> IntOf(f.rule_level),
              hour_of_day |-> dt.hour, day_of_week |-> dt.weekday,
              success |-> IF \E i \in DOMAIN groups_str :
                               groups_str[i] = "authentication_success"
                          THEN 1 ELSE 0]]

\* the alerts given to extract_features
FeatNested == {Missing, Null, Named("web01"), Str("web01")}
FeatLevels == {Missing, Null, Number("3"), Str("7"), Str("high")}
FeatGroups == {Missing, Null, List(<<"sshd", "authentication_success">>),
               Str("sshd"), ListOfNumbers(<<"1">>)}
FeatTimestamps ==
  {Missing, Number("5")}
    \cup {[t |-> "str", v |-> ts] :
            ts \in {<<"", "">>, WazuhStamp, ZuluStamp, <<"yesterday", "">>}}
FeatFields ==
  {[agent |-> a, data |-> o, decoder |-> o, predecoder |-> o,
    rule_level |-> l, rule_groups |-> g, timestamp |-> ts] :
     a \in FeatNested, o \in {Missing, Named("sshd")}, l \in FeatLevels,
     g \in FeatGroups, ts \in FeatTimestamps}
FeatAlerts ==
  {FlatAlert(f) : f \in FeatFields} \cup {WrappedAlert(f) : f \in FeatFields}
    \cup {OddAlert("null"), OddAlert("str")}

\* the same content in the other shape
OtherShape(alert) ==
  CASE alert._source.t = "missing" -> WrappedAlert(alert.top)
    [] alert._source.t = "map" -> FlatAlert(alert._source.fields)
    [] OTHER -> alert

\* a first call of extract_features; one alert in a behaviour
ExtractFeatures(alert) ==
  /\ featLast.op = "none"
  /\ featLast' = [op |-> "extract", alert |-> alert,
                  first |-> Features(alert, Now),
                  second |-> Features(alert, Now),
                  other |-> Features(alert, Now)]
  /\ UNCHANGED clock

\* a second call on the same alert, and one on the same content in the
\* other shape
ExtractAgain ==
  /\ featLast.op = "extract"
  /\ featLast' = [featLast EXCEPT !.op = "again",
                                  !.second = Features(featLast.alert, Now),
                                  !.other = Features(OtherShape(featLast.alert), Now)]
  /\ UNCHANGED clock

\* an hour passes between two calls
HourPasses ==
  /\ clock < MaxClock
  /\ clock' = clock + 1
  /\ UNCHANGED featLast

InitFeat ==
  /\ clock = 1 /\ seq = 0 /\ stamps = 0 /\ meta = <<>>
  /\ files = [p \in Paths |-> NoFile]
  /\ pc = [p \in Procs |-> "idle"]
  /\ loc = [p \in Procs |-> NoLoc]
  /\ ret = [p \in Procs |-> NoRet]
  /\ pre = [p \in Procs |->
             [meta |-> <<>>, files |-> [q \in Paths |-> NoFile], modelsColl |-> <<>>]]
  /\ observed = NoFile
  /\ modelsColl = <<>>
  /\ promoLog = <<>>
  /\ calls = [p \in Procs |-> 0]
  /\ EngineInit
  /\ IngestInit

NextFeat ==
  /\ UNCHANGED <<seq, stamps, meta, files, pc, loc, ret, pre, observed, modelsColl,
                 promoLog, calls, engineVars, ingestVars, schedVars, backfillVars,
                 evalVars, clientVars>>
  /\ \/ \E alert \in FeatAlerts : ExtractFeatures(alert)
     \/ ExtractAgain
     \/ HourPasses

SpecFeat == InitFeat /\ [][NextFeat]_vars

\* ======================================================================
\* The columns of training and of inference (trainer.py 92-102,
\* model_wrapper.py 66-89)
\* ======================================================================
\* categorical_features + numerical_features: the columns of X the pipeline
\* is fitted on; its ColumnTransformer selects them by name
TrainerColumns ==
  <<"agent_name", "srcuser", "decoder_name", "program_name", "rule_groups",
    "rule_description", "rule_level", "hour_of_day", "day_of_week">>

\* feature_order of predict: the columns of the frame given to predict_proba
FeatureOrder ==
  <<"agent_name", "srcuser", "decoder_name", "program_name", "rule_groups",
    "rule_level", "hour_of_day", "day_of_week", "success">>

ColumnsOf(columns) == {columns[i] : i \in DOMAIN columns}

\* the pipelines the engine may hold: one fitted by train_model, and one
\* fitted on the columns the engine passes
FittedColumns == {TrainerColumns, FeatureOrder}

\* predict with a loaded pipeline, model_wrapper.py 65-108: extract_features,
\* the frame in feature_order (a KeyError when the dict lacks a column),
\* predict_proba (the ColumnTransformer raises when the frame lacks a column
\* it was fitted on); every exception gives the unknown result
PredictLabel(fitted, extracted, proba, threshold) ==
  IF extracted.raised THEN "unknown"
  ELSE IF ~(ColumnsOf(FeatureOrder) \subseteq DOMAIN extracted.features) THEN "unknown"
  ELSE IF ~(ColumnsOf(fitted) \subseteq ColumnsOf(FeatureOrder)) THEN "unknown"
  ELSE Label(proba, threshold)

\* the engine holds a pipeline fitted on the columns `fitted` and predicts
\* the alert whose features were extracted
PredictFitted(fitted, proba) ==
  /\ featLast.op = "extract"
  /\ featLast' = [op |-> "predict", alert |-> featLast.alert,
                  first |-> featLast.first, second |-> featLast.second,
                  other |-> featLast.other, fitted |-> fitted,
                  label |-> PredictLabel(fitted, featLast.first, proba,
                                         engine.threshold)]
  /\ UNCHANGED clock

NextPredict ==
  /\ UNCHANGED <<seq, stamps, meta, files, pc, loc, ret, pre, observed, modelsColl,
                 promoLog, calls, engineVars, ingestVars, schedVars, backfillVars,
                 evalVars, clientVars>>
  /\ \/ \E alert \in FeatAlerts : ExtractFeatures(alert)
     \/ \E fitted \in FittedColumns, proba \in Probabilities : PredictFitted(fitted, proba)

SpecPredict == InitFeat /\ [][NextPredict]_vars

\* ======================================================================
\* The store client (db.py 18-42, 164-172; scheduler.py 39-63)
\* ======================================================================
\* get_client(), db.py 23-42; returned is what the calls since the last
\* close_client returned
GetClient ==
  /\ Len(dbClient.returned) < LogLen
  /\ IF dbClient.client = NoClient
     THEN /\ dbClient.made < MaxClients
          /\ dbClient' = [dbClient EXCEPT !.client = dbClient.made + 1,
                                          !.made = @ + 1,
                                          !.open = @ \cup {dbClient.made + 1},
                                          !.returned = Append(@, dbClient.made + 1)]
     ELSE dbClient' = [dbClient EXCEPT !.returned = Append(@, dbClient.client)]

\* close_client(), db.py 164-172
CloseClient ==
  IF dbClient.client # NoClient
  THEN dbClient' = [dbClient EXCEPT !.client = NoClient,
                                    !.open = @ \ {dbClient.client},
                                    !.returned = <<>>]
  ELSE UNCHANGED dbClient

\* _retrain_job_async, scheduler.py 39-47: the job opens a client of its own
RetrainJobStarts ==
  /\ dbClient.made < MaxClients
  /\ dbClient' = [dbClient EXCEPT !.made = @ + 1,
                                  !.open = @ \cup {dbClient.made + 1},
                                  !.jobs = @ \cup {dbClient.made + 1}]

\* scheduler.py 61-63: the job closes its client when training has ended
RetrainJobEnds(c) ==
  /\ c \in dbClient.jobs
  /\ dbClient' = [dbClient EXCEPT !.open = @ \ {c}, !.jobs = @ \ {c}]

InitClient == InitFeat

NextClient ==
  /\ UNCHANGED <<storeVars, calls, engineVars, ingestVars, schedVars, backfillVars,
                 evalVars, featVars>>
  /\ \/ GetClient
     \/ CloseClient
     \/ RetrainJobStarts
     \/ \E c \in 1..MaxClients : RetrainJobEnds(c)

SpecClient == InitClient /\ [][NextClient]_vars

\* ======================================================================
\* Deployment: POST /ml/reload, /ml/rollback, /ml/train and the retrain job
\* (app.py 506-537, 582-624, 661-711; scheduler.py 26-68)
\* ======================================================================
\* rollback_model_version, app.py 661-711, with the promote_version it calls
\* (model_versioning.py 98-137) and its reload; 0 is an id no version has
RollbackModelVersion(id) ==
  LET i == FindIndex(meta, id) IN
    IF i = 0 \/ ~Exists(meta[i].path)
    THEN /\ engLast' = [NoEngLast EXCEPT !.op = "rollback", !.raised = TRUE,
                                         !.pre = engine]
         /\ UNCHANGED <<meta, files, engine, thresholdSet>>
    ELSE LET disk == [files EXCEPT ![CURRENT_MODEL] = files[meta[i].path]]
             r == LoadModelFrom(disk, engine, NoPath)
         IN /\ files' = disk
            /\ meta' = SortNewestFirst(MarkProduction(meta, i))
            /\ engine' = r.engine
            /\ engLast' = [NoEngLast EXCEPT !.op = "rollback", !.ok = TRUE,
                                            !.pre = engine]
            /\ thresholdSet' = [thresholdSet EXCEPT
                                  !.reloaded = IF r.ok THEN "ok" ELSE "failed"]

\* trigger_training (app.py 582-624) and _retrain_job_async (scheduler.py
\* 26-68): the import of the trainer, a run that promotes the pipeline it
\* trained, and the reload
TrainAndReload ==
  IF TrainerImports \subseteq FeaturesExports
  THEN LET disk == [files EXCEPT ![AuthclfPath(clock)] = Full(MaxArtifacts),
                                 ![CURRENT_MODEL] = Full(MaxArtifacts)]
           r == LoadModelFrom(disk, engine, NoPath)
       IN /\ files' = disk
          /\ engine' = r.engine
          /\ engLast' = [NoEngLast EXCEPT !.op = "train", !.ok = TRUE, !.pre = engine]
          /\ thresholdSet' = [thresholdSet EXCEPT
                                !.reloaded = IF r.ok THEN "ok" ELSE "failed"]
          /\ UNCHANGED meta
  ELSE /\ engLast' = [NoEngLast EXCEPT !.op = "train", !.raised = TRUE,
                                       !.pre = engine]
       /\ UNCHANGED <<meta, files, engine, thresholdSet>>

\* two versions were saved, the second is in production and loaded
InitDeploy ==
  /\ clock = 1 /\ seq = 0 /\ stamps = 0
  /\ meta = <<NewVersion(2, 2),
              [NewVersion(1, 1) EXCEPT !.is_production = FALSE,
                                       !.promoted_until = TRUE]>>
  /\ files = [p \in Paths |->
               IF p = CURRENT_MODEL THEN Full(2)
               ELSE IF p \in {VersionPath(1), VersionPath(2)} THEN Full(p[2])
               ELSE NoFile]
  /\ pc = [p \in Procs |-> "idle"]
  /\ loc = [p \in Procs |-> NoLoc]
  /\ ret = [p \in Procs |-> NoRet]
  /\ pre = [p \in Procs |->
             [meta |-> <<>>, files |-> [q \in Paths |-> NoFile], modelsColl |-> <<>>]]
  /\ observed = NoFile
  /\ modelsColl = <<>>
  /\ promoLog = <<>>
  /\ calls = [p \in Procs |-> 0]
  /\ EngineInit
  /\ IngestInit

NextDeploy ==
  /\ UNCHANGED <<clock, seq, stamps, pc, loc, ret, pre, observed, modelsColl,
                 promoLog, calls, ingestVars, schedVars, backfillVars, evalVars,
                 featVars, clientVars>>
  /\ \/ \E path \in EnginePaths \cup {NoPath, VersionPath(2)} :
          Reload(path) /\ UNCHANGED <<meta, files>>
     \/ \E id \in 0..2 : RollbackModelVersion(id)
     \/ TrainAndReload

SpecDeploy == InitDeploy /\ [][NextDeploy]_vars

\* ======================================================================
\* Two promotions at once: a rollback or manual training run of the request
\* handler and the training run of the retrain worker (scheduler.py 71-90),
\* with no I/O error and no crash
\* ======================================================================
NextRace ==
  \/ /\ UNCHANGED <<calls, engineVars, ingestVars, schedVars, backfillVars, evalVars,
                    featVars, clientVars>>
     /\ \/ PromoteLoad(Handler)
        \/ PromoteMetadata(Handler)
        \/ \E p \in Procs : CopyOpen(p) \/ CopyWrite(p) \/ CopyFinish(p) \/ Replace(p)
        \/ \E p \in Procs : TrainSave(p) \/ TrainCompare(p, ConcBaselineF1) \/ TrainInsert(p)
  \/ /\ calls[Handler] < MaxConcCalls
     /\ calls' = [calls EXCEPT ![Handler] = @ + 1]
     /\ UNCHANGED <<engineVars, ingestVars, schedVars, backfillVars, evalVars, featVars,
                    clientVars>>
     /\ \/ \E id \in Seconds : PromoteCall(Handler, id)
        \/ \E n \in ConcPairs : TrainCall(Handler, n[1], n[2], ConcF1)
  \/ /\ calls[Worker] < MaxConcCalls
     /\ calls' = [calls EXCEPT ![Worker] = @ + 1]
     /\ UNCHANGED <<engineVars, ingestVars, schedVars, backfillVars, evalVars, featVars,
                    clientVars>>
     /\ \E n \in ConcPairs : TrainCall(Worker, n[1], n[2], ConcF1)

SpecRace == InitConc /\ [][NextRace]_vars

\* ======================================================================
\* The labeled partitions: POST /events, POST /classify and
\* backfill_with_auto_classify on one alert, with a store that does not fail
\* ======================================================================
\* backfill_with_auto_classify, backfill.py 128-200; the engine gives proba
\* for every alert of the cursor
BackfillWithAutoClassify(proba) ==
  /\ ingested < MaxIngests
  /\ ingested' = ingested + 1
  /\ IF ~(settings.present /\ settings.auto_classify)
     THEN \* lines 134-136: backfill_predictions()
          /\ alerts' = IF engine.model = 0 THEN alerts
                       ELSE {[d EXCEPT !.predicted = TRUE] : d \in alerts}
          /\ UNCHANGED malicious
     ELSE IF engine.model = 0
     THEN UNCHANGED <<alerts, malicious>>
     ELSE LET cursor == {d \in alerts : ~d.predicted}
              classified ==
                IF /\ Label(proba, engine.threshold) = "malicious"
                   /\ proba >= ConfidenceThreshold(settings)
                THEN cursor ELSE {}
              labeled == {[d EXCEPT !.label = "malicious", !.auto_classified = TRUE] :
                            d \in classified}
          IN /\ malicious' = {d \in malicious : \A c \in classified : c._id # d._id}
                               \cup labeled
             /\ alerts' = {IF d \in classified
                           THEN [d EXCEPT !.predicted = TRUE, !.label = "malicious",
                                          !.auto_classified = TRUE]
                           ELSE IF d \in cursor THEN [d EXCEPT !.predicted = TRUE]
                           ELSE d : d \in alerts}
  /\ ingLast' = NoIngLast
  /\ clsLast' = NoClsLast
  /\ UNCHANGED <<storeVars, engineVars, settings, safe>>

\* the alert of the store is sent again, or another one
LabelPayloads == {Payload("a1", NoTimestamp), Payload("", NoTimestamp)}

\* one alert was received while no prediction could be made
InitLabel ==
  /\ clock = 1 /\ seq = 0 /\ stamps = 0 /\ meta = <<>>
  /\ files = [p \in Paths |-> IF p = CURRENT_MODEL THEN Full(1) ELSE NoFile]
  /\ settings \in SettingsValues
  /\ pc = [p \in Procs |-> "idle"]
  /\ loc = [p \in Procs |-> NoLoc]
  /\ ret = [p \in Procs |-> NoRet]
  /\ pre = [p \in Procs |->
             [meta |-> <<>>, files |-> [q \in Paths |-> NoFile], modelsColl |-> <<>>]]
  /\ observed = NoFile
  /\ modelsColl = <<>>
  /\ promoLog = <<>>
  /\ calls = [p \in Procs |-> 0]
  /\ EngineInit
  /\ SchedInit
  /\ ingested = 0
  /\ alerts = {[_id |-> ComputeId(Payload("a1", NoTimestamp)),
                raw |-> Payload("a1", NoTimestamp), timestamp |-> NowTimestamp,
                predicted |-> FALSE, label |-> "none", auto_classified |-> FALSE]}
  /\ malicious = {}
  /\ safe = {}
  /\ clsLast = NoClsLast
  /\ ingLast = NoIngLast

NextLabel ==
  /\ UNCHANGED <<calls, schedVars, backfillVars, evalVars, featVars, clientVars>>
  /\ \/ \E payload \in LabelPayloads, proba \in IngestProbabilities :
          Ingest(payload, "none", FALSE, proba)
     \/ \E d \in alerts, label \in {"malicious", "safe"} : Classify(d._id, label, "none")
     \/ \E proba \in IngestProbabilities : BackfillWithAutoClassify(proba)

SpecLabel == InitLabel /\ [][NextLabel]_vars

\* ======================================================================
\* The claims
\* ======================================================================
Production(vs) == {i \in DOMAIN vs : vs[i].is_production}
Quiet == \A p \in Procs : pc[p] = "idle"
Returned(p, op) == pc[p] = "idle" /\ ret[p].op = op
KnownId(vs, id) == \E i \in DOMAIN vs : vs[i].version_id = id
ProductionId(vs, id) ==
  \E i \in DOMAIN vs : vs[i].version_id = id /\ vs[i].is_production

\* C1: after any sequence of save, promote and delete calls of which a save
\* has persisted its record, whenever no call is in progress exactly one
\* version record of versions.json has is_production = true.
C1_ExactlyOneProduction ==
  (Quiet /\ stamps >= 1) => Cardinality(Production(meta)) = 1

\* a save has returned on top of an earlier version, which it demoted
C1_Witness ==
  /\ Returned(1, "save") /\ ret[1].val = "returned"
  /\ Len(meta) = 2
  /\ Cardinality(Production(meta)) = 1

\* C2 (as claimed): in every state while save or promote executes, the
\* content of models/current.joblib is the stored artifact of the version
\* that versions.json flags as production.
C2_ProductionMirrorsFlag ==
  \A p \in Procs :
    loc[p].op \in {"save", "promote"} =>
      \A i \in Production(meta) : files[CURRENT_MODEL] = files[meta[i].path]

\* C3 (as claimed): whatever promotion steps interleave, a read of
\* models/current.joblib returns a complete artifact (or finds no file),
\* never a partially written one.
C3_ReaderSeesCompleteArtifact ==
  observed = NoFile \/ IsComplete(observed)

\* C4 (as claimed): when the copy or the rename of the swap fails inside
\* save or promote, versions.json and models/current.joblib are what they
\* were before the call.
C4_FailedSwapChangesNothing ==
  \A p \in Procs :
    (pc[p] = "idle" /\ ret[p].op \in {"save", "promote"} /\ ret[p].val = "raised")
      => /\ meta = pre[p].meta
         /\ files[CURRENT_MODEL] = pre[p].files[CURRENT_MODEL]

\* C5: after promote(A), promote(B), promote(A) have returned true in that
\* order, exactly one record is flagged production, its version_id is A, and
\* models/current.joblib is byte-identical to the file at A's path.
LastThree == SubSeq(promoLog, Len(promoLog) - 2, Len(promoLog))
C5_RollbackRestoresA ==
  (Quiet /\ Len(promoLog) >= 3 /\ LastThree[1] = LastThree[3]) =>
    /\ Cardinality(Production(meta)) = 1
    /\ \A i \in Production(meta) :
         /\ meta[i].version_id = LastThree[3]
         /\ files[CURRENT_MODEL] = files[meta[i].path]
         /\ IsComplete(files[CURRENT_MODEL])

\* A = 1 and B = 2 hold different artifacts and A is back in production
C5_Witness ==
  /\ Quiet
  /\ promoLog = <<1, 2, 1>>
  /\ Returned(1, "promote") /\ ret[1].val = "true"
  /\ files[VersionPath(1)] # files[VersionPath(2)]
  /\ files[CURRENT_MODEL] = files[VersionPath(1)]

\* C6: promote of an unknown id, or of a version whose artifact file is
\* missing, returns false (it does not raise) and leaves versions.json and
\* every file, the production artifact among them, unchanged.
MissingArtifact(snap, id) ==
  LET i == FindIndex(snap.meta, id) IN
    i # 0 /\ snap.files[snap.meta[i].path] = NoFile

C6_PromoteUnknownOrMissing ==
  \A p \in Procs :
    (Returned(p, "promote") /\ ret[p].val # "crashed"
       /\ (~KnownId(pre[p].meta, ret[p].vid) \/ MissingArtifact(pre[p], ret[p].vid)))
      => /\ ret[p].val = "false"
         /\ meta = pre[p].meta
         /\ files = pre[p].files

\* promote of a known version whose file is gone, while another version is
\* in production
C6_Witness ==
  /\ Returned(1, "promote") /\ ret[1].val = "false"
  /\ MissingArtifact(pre[1], ret[1].vid)
  /\ Cardinality(Production(meta)) = 1
  /\ IsComplete(files[CURRENT_MODEL])

\* C7: delete of the production version returns false and removes neither
\* its record nor its file; delete of an unknown id returns false and changes
\* nothing; delete of any other version returns true, removes exactly the
\* records of that id and the file at its path, and leaves the production
\* flag and models/current.joblib unchanged.
C7_DeleteSparesProduction ==
  \A p \in Procs :
    (Returned(p, "delete") /\ ret[p].val # "crashed") =>
      IF ~KnownId(pre[p].meta, ret[p].vid) \/ ProductionId(pre[p].meta, ret[p].vid)
      THEN /\ ret[p].val = "false"
           /\ meta = pre[p].meta
           /\ files = pre[p].files
      ELSE /\ ret[p].val = "true"
           /\ meta = SelectSeq(pre[p].meta, LAMBDA v : v.version_id # ret[p].vid)
           /\ files = [pre[p].files EXCEPT ![VersionPath(ret[p].vid)] = NoFile]
           /\ Production(meta) # {}
           /\ files[CURRENT_MODEL] = pre[p].files[CURRENT_MODEL]

\* a demoted version and its file have been deleted
C7_Witness ==
  /\ Returned(1, "delete") /\ ret[1].val = "true"
  /\ Len(pre[1].meta) = 2 /\ Len(meta) = 1
  /\ pre[1].files[VersionPath(ret[1].vid)] # NoFile
  /\ files[VersionPath(ret[1].vid)] = NoFile

\* C8: when the production model was evaluated, the run decides to promote
\* exactly if new_f1 > current_f1 + 0.02 (F1 in hundredths): a rejected run
\* returns promoted = false and leaves models/current.joblib unchanged, a
\* run that returns promoted = true has swapped its own artifact in, and a
\* run that was to promote ends otherwise only on an error; against 0.80 the
\* candidates 0.81 and 0.82 are rejected and 0.83 is promoted.
C8_PromotionMargin ==
  \A p \in Procs :
    (Returned(p, "train") /\ ret[p].baseline = "evaluated" /\ ret[p].msg # "crashed") =>
      LET better == ret[p].newF1 > ret[p].curF1 + 2 IN
        /\ ~better => /\ ret[p].val = FALSE
                      /\ ret[p].msg = "no_improvement"
                      /\ files[CURRENT_MODEL] = pre[p].files[CURRENT_MODEL]
        /\ better => ret[p].msg \in {"promoted", "error"}
        /\ ret[p].msg = "promoted" =>
             /\ ret[p].val = TRUE
             /\ files[CURRENT_MODEL] = files[AuthclfPath(ret[p].version)]
        /\ (ret[p].curF1 = 80 /\ ret[p].newF1 \in {81, 82}) => ret[p].val = FALSE
        /\ (ret[p].curF1 = 80 /\ ret[p].newF1 = 83 /\ ret[p].msg # "error")
             => ret[p].val = TRUE

\* baseline 0.80, candidate 0.83: promoted over a different production artifact
C8_Witness ==
  /\ Returned(1, "train") /\ ret[1].baseline = "evaluated"
  /\ ret[1].curF1 = 80 /\ ret[1].newF1 = 83 /\ ret[1].val = TRUE
  /\ pre[1].files[CURRENT_MODEL] # files[CURRENT_MODEL]

\* C9 (as claimed): a training run that passes the data-sufficiency guard
\* and ends without an error while versions.json holds no version record
\* always promotes.
PassesGuard(nMal, nSafe) ==
  nMal + nSafe >= 20 /\ nMal >= 5 /\ nSafe >= 5

C9_NoVersionsAlwaysPromotes ==
  \A p \in Procs :
    (Returned(p, "train") /\ PassesGuard(ret[p].nMal, ret[p].nSafe)
       /\ pre[p].meta = <<>> /\ meta = <<>>
       /\ ret[p].msg \notin {"error", "crashed"})
      => ret[p].val = TRUE

\* C10: with fewer than 20 labeled rows, a single class, or fewer than 5
\* rows of a class, the run returns promoted = false with a message that
\* names the data, and writes nothing: no file and no version record, so
\* the production artifact and the production flag are as before the call.
C10_InsufficientDataWritesNothing ==
  \A p \in Procs :
    (Returned(p, "train") /\ ret[p].msg # "crashed"
       /\ ~PassesGuard(ret[p].nMal, ret[p].nSafe)) =>
      /\ ret[p].val = FALSE
      /\ ret[p].version = 0
      /\ ret[p].msg \in {"no_data", "insufficient", "one_class", "per_class"}
      /\ files = pre[p].files
      /\ meta = pre[p].meta

\* 15 labeled rows while a production artifact and its audit entry exist
C10_Witness ==
  /\ Returned(1, "train") /\ ret[1].nMal + ret[1].nSafe = 15
  /\ ret[1].msg = "insufficient"
  /\ modelsColl # <<>>
  /\ IsComplete(files[CURRENT_MODEL])

\* C11 (as claimed): a training run that passes the guard and ends promoted
\* or rejected has appended exactly one version record to versions.json,
\* flagged production exactly if the run promoted.
C11_TrainingAppendsVersion ==
  \A p \in Procs :
    (Returned(p, "train") /\ ret[p].msg \in {"promoted", "no_improvement"}) =>
      /\ Len(meta) = Len(pre[p].meta) + 1
      /\ \E i \in DOMAIN meta :
           /\ meta[i].version_id = ret[p].version
           /\ meta[i].is_production = ret[p].val

\* C12 (as claimed): when models/current.joblib exists and its evaluation
\* raises, the run promotes and the message of its result says that the
\* baseline could not be evaluated.
C12_UnevaluableBaselineWarns ==
  \A p \in Procs :
    (Returned(p, "train") /\ ret[p].baseline = "unevaluable"
       /\ ret[p].msg \notin {"error", "crashed"})
      => /\ ret[p].val = TRUE
         /\ ret[p].msg = "promoted_baseline_unevaluable"

\* C13 (as claimed): a training run that produced a model, promoted or
\* rejected, has added exactly one entry to the models collection and has
\* left the earlier entries as they were.
C13_EveryRunAudited ==
  \A p \in Procs :
    (Returned(p, "train") /\ ret[p].msg \in {"promoted", "no_improvement"}) =>
      /\ Len(modelsColl) = Len(pre[p].modelsColl) + 1
      /\ SubSeq(modelsColl, 1, Len(pre[p].modelsColl)) = pre[p].modelsColl

\* C14 (as claimed): every attempt of a caller to run
\* train_and_maybe_promote ends in a result record and never in an exception
\* in the caller, and an error inside the run gives promoted = false and
\* version "none".
C14_TrainingNeverRaises ==
  \A p \in Procs :
    (pc[p] = "idle" /\ ret[p].op \in {"train", "import_trainer"}
       /\ ret[p].msg # "crashed") =>
      /\ ret[p].op = "import_trainer" => ret[p].val # "raised"
      /\ (ret[p].op = "train" /\ ret[p].msg \notin {"promoted", "no_improvement"})
           => ret[p].val = FALSE /\ ret[p].version = 0

\* C15 (as claimed): a reload that returns failure leaves the engine as it
\* was: get_info reports the same loaded flag, version, path and threshold as
\* before the call, and the loaded model is the same.
C15_FailedReloadKeepsState ==
  (engLast.op = "reload" /\ ~engLast.ok) =>
    /\ engine.model = engLast.pre.model
    /\ GetInfo(engine) = GetInfo(engLast.pre)

\* C16 (as claimed): predict never raises; with no model loaded, or when the
\* feature extraction or the inference fails, it returns label unknown,
\* score 0.0 and an error descriptor.
C16_PredictNeverRaises ==
  engLast.op = "predict" =>
    /\ ~engLast.raised
    /\ (engLast.pre.model = 0 \/ engLast.error) =>
         engLast.label = "unknown" /\ engLast.score = 0 /\ engLast.error

\* C17: the threshold of the engine is the one last set (0.5 before any
\* set_threshold), whatever reloads succeeded or failed since; a predict that
\* infers labels the alert malicious exactly if its probability is >= that
\* threshold; set_threshold changes neither the model, the version nor the
\* path.
C17_ThresholdTakesEffect ==
  /\ engine.threshold = thresholdSet.t
  /\ (engLast.op = "predict" /\ ~engLast.raised /\ ~engLast.error) =>
       /\ engLast.label \in {"malicious", "benign"}
       /\ engLast.label = "malicious" <=> engLast.proba >= thresholdSet.t
       /\ engLast.score = engLast.proba
  /\ engLast.op = "set_threshold" =>
       /\ engine.model = engLast.pre.model
       /\ engine.version = engLast.pre.version
       /\ engine.model_path = engLast.pre.model_path
  /\ engLast.op = "reload" => engine.threshold = engLast.pre.threshold

\* threshold 0.85 set, a reload failed since, and a probability of exactly
\* 0.85 is labeled malicious
C17_Witness ==
  /\ thresholdSet = [t |-> 85, reloaded |-> "failed"]
  /\ engLast.op = "predict" /\ engLast.proba = 85
  /\ engLast.label = "malicious"
  /\ engine.model # 0

\* C18 (as claimed): ingesting the identical payload again computes the same
\* id and adds no record: no two documents of the alerts collection come from
\* the same raw alert.
C18_SamePayloadOneRecord ==
  \A d1, d2 \in alerts : d1.raw = d2.raw => d1._id = d2._id

Classifiable ==
  /\ ingLast.predicted
  /\ ingLast.settings.present
  /\ ingLast.settings.auto_classify
  /\ ingLast.label = "malicious"
  /\ ingLast.score >= (IF ingLast.settings.confidence_threshold = Unset THEN 85
                       ELSE ingLast.settings.confidence_threshold)
InPartition ==
  \E d \in malicious :
    d._id = ingLast.id /\ d.auto_classified /\ d.label = "malicious"
AlertLabeled ==
  \E d \in alerts :
    d._id = ingLast.id /\ d.auto_classified /\ d.label = "malicious"
LabelsOf(coll) == {[id |-> d._id, label |-> d.label, auto |-> d.auto_classified] : d \in coll}
LabelsUntouched ==
  /\ malicious = ingLast.preMalicious
  /\ \A l \in LabelsOf(ingLast.preAlerts) : l \in LabelsOf(alerts)
  /\ \A l \in LabelsOf(alerts) : l \in LabelsOf(ingLast.preAlerts) \/ l.label = "none"

C21_ClassifyMoves ==
  /\ clsLast.status = 200 =>
        LET target == IF clsLast.label = "malicious" THEN malicious ELSE safe
            opposite == IF clsLast.label = "malicious" THEN safe ELSE malicious
        IN /\ \E d \in clsLast.preAlerts : d._id = clsLast.id
           /\ \E d \in target : d._id = clsLast.id /\ d.label = clsLast.label
           /\ ~\E d \in opposite : d._id = clsLast.id
           /\ \A d \in alerts : d._id = clsLast.id => d.label = clsLast.label
           /\ \E d \in alerts : d._id = clsLast.id
  /\ (clsLast.status # 0 /\
        (\/ clsLast.label \notin {"malicious", "safe"}
         \/ ~\E d \in clsLast.preAlerts : d._id = clsLast.id)) =>
        /\ clsLast.status \in {400, 404, 500}
        /\ alerts = clsLast.preAlerts
        /\ malicious = clsLast.preMalicious
        /\ safe = clsLast.preSafe

\* an auto-classified alert is reclassified safe: it leaves the malicious
\* partition
C21_Witness ==
  /\ clsLast.status = 200 /\ clsLast.label = "safe"
  /\ \E d \in clsLast.preMalicious : d._id = clsLast.id
  /\ \E d \in safe : d._id = clsLast.id

JobsScheduled == SelectSeq(scheduler.jobs, LAMBDA j : j.id = JOB_ID)

\* C22 (as claimed): at most one model_retrain job is scheduled in every
\* state; after a call that rescheduled with the settings read from the
\* store, the job carries the interval and unit of the Settings, as the
\* application reports them, if the scheduler is enabled, and there is no
\* job if it is disabled.
C22_OneJobOfSettings ==
  /\ Len(JobsScheduled) <= 1
  /\ (schedLast.rescheduled /\ schedLast.fault = "none") =>
        IF ShownEnabled(settings)
        THEN JobsScheduled = <<[id |-> JOB_ID, interval |-> ShownInterval(settings),
                                unit |-> ShownUnit(settings)]>>
        ELSE JobsScheduled = <<>>

BfRan == bfLast.op = "backfill" /\ bfLast.message # "not_loaded"
BfIds(outcome) == {id \in DOMAIN bfLast.outcomes : bfLast.outcomes[id] = outcome}
BfKept(id) == \E d \in alerts : d._id = id /\ d \in bfLast.preAlerts
BfWritten(id) ==
  \E d \in alerts : d._id = id /\ d.predicted_label = "malicious"
                                /\ d.predicted_at = "backfill"

\* C23 (as claimed): a backfill run on a loaded engine completes; the alerts
\* whose prediction failed are counted in errors and keep the fields they
\* had, every other alert of the corpus is written, and processed + errors
\* is the number of alerts streamed.
C23_BackfillCountsEveryAlert ==
  BfRan =>
    /\ bfLast.message = "completed"
    /\ bfLast.errors = Cardinality(BfIds("error"))
    /\ \A id \in BfIds("error") : BfKept(id)
    /\ \A id \in BfIds("ok") : BfWritten(id)
    /\ bfLast.processed + bfLast.errors = Cardinality(bfLast.preAlerts)

\* C24 (as claimed): a run with force = false leaves every alert that had a
\* prediction before the run with the prediction fields it had.
C24_UnforcedKeepsPredictions ==
  (BfRan /\ ~bfLast.force) =>
    \A d \in bfLast.preAlerts : d.predicted_label # "none" => d \in alerts

EvRan == evLast.op = "evaluate" /\ evLast.evaluated > 0
\* the alerts of the corpus with the given human and predicted class
EvReference(human, predictedMalicious) ==
  Cardinality({d \in alerts :
                 /\ d.label = human
                 /\ d.predicted_label # "none"
                 /\ (d.predicted_label = "malicious") = predictedMalicious})

\* C25 (as claimed): evaluate takes exactly the alerts that hold both a
\* label and a predicted_label; its accuracy is correct / total, its four
\* confusion counts are the reference counts of the corpus, also when only
\* one class occurs, and the misclassified list is in descending order of
\* |predicted_score - 0.5|.
C25_EvaluateReferenceCounts ==
  EvRan =>
    /\ {evLast.docs[i] : i \in DOMAIN evLast.docs}
         = {d \in alerts : d.label # "none" /\ d.predicted_label # "none"}
    /\ evLast.accuracy
         = <<EvReference("malicious", TRUE) + EvReference("safe", FALSE),
             evLast.evaluated>>
    /\ evLast.confusion_matrix
         = [true_positives |-> EvReference("malicious", TRUE),
            false_positives |-> EvReference("safe", TRUE),
            false_negatives |-> EvReference("malicious", FALSE),
            true_negatives |-> EvReference("safe", FALSE)]
    /\ \A i, j \in DOMAIN evLast.misclassified :
         i < j => Confidence(evLast.misclassified[i])
                    >= Confidence(evLast.misclassified[j])

\* C26 (as claimed): extracting twice from one alert gives the same feature
\* vector, and the same content flat and under _source gives the same
\* feature vector, whatever the timestamp of the alert is.
C26_FeaturesDeterministic ==
  featLast.op = "again" =>
    /\ featLast.first = featLast.second
    /\ featLast.second = featLast.other

\* C27 (as claimed): extract_features returns a feature vector for every
\* alert record and never raises.
C27_FeaturesTotal ==
  featLast.op # "none" => ~featLast.first.raised

\* C28 (as claimed): the calls of get_client between the creation of the
\* client and close_client return one client, and at most one store client
\* is open at any time, also while a retraining job runs.
C28_OneStoreClient ==
  /\ \A i, j \in DOMAIN dbClient.returned : dbClient.returned[i] = dbClient.returned[j]
  /\ Cardinality(dbClient.open) <= 1

\* C29 (as claimed): a reload without a path reads models/current.joblib,
\* whatever calls came before: it succeeds exactly if that file holds a whole
\* artifact, the engine then holds that artifact, and it keeps the model it
\* had otherwise.
C29_PathlessReloadReadsProduction ==
  (engLast.op = "reload" /\ engLast.path = NoPath) =>
    IF IsComplete(files[CURRENT_MODEL])
    THEN /\ engLast.ok
         /\ engine.model = files[CURRENT_MODEL][1]
         /\ engine.version = CURRENT_MODEL
    ELSE /\ ~engLast.ok
         /\ engine.model = engLast.pre.model

\* C30 (as claimed): when a rollback or a promoted training run has
\* completed, its reload included, the engine holds the artifact of
\* models/current.joblib, whatever reloads, trainings and rollbacks came
\* before.
C30_EngineFollowsProduction ==
  (engLast.op \in {"rollback", "train"} /\ engLast.ok) =>
    /\ IsComplete(files[CURRENT_MODEL])
    /\ engine.model = files[CURRENT_MODEL][1]

\* a finished call that went as far as the swap of the production artifact
Promotion(p) ==
  /\ pc[p] = "idle"
  /\ \/ ret[p].op = "promote" /\ ret[p].val \in {"true", "raised"}
     \/ ret[p].op = "train" /\ ret[p].vid # 0 /\ ret[p].msg # "no_improvement"
\* the file a finished promotion copied
PromotedPath(p) ==
  IF ret[p].op = "promote" THEN VersionPath(ret[p].vid) ELSE AuthclfPath(ret[p].vid)

\* C31 (as claimed): when two promotions have both finished, each has
\* completed without error and models/current.joblib is, whole, the artifact
\* of one of them.
C31_LastSwapWins ==
  (\A p \in Procs : Promotion(p)) =>
    /\ \A p \in Procs :
         IF ret[p].op = "promote" THEN ret[p].val = "true"
         ELSE ret[p].msg = "promoted"
    /\ IsComplete(files[CURRENT_MODEL])
    /\ \E p \in Procs : files[CURRENT_MODEL] = files[PromotedPath(p)]

\* C32 (as claimed): the scored results a backfill run holds in memory,
\* not yet written, never number more than the batch size, also when a
\* write of a batch fails.
C32_BatchBounded ==
  BfRan => bfLast.held <= BatchSize

\* C38 (as claimed): the processed count a backfill run returns is the
\* number of alerts it wrote, also when a write fails in the loop or in the
\* flush of the last batch.
C38_ProcessedCountsWrites ==
  BfRan => bfLast.processed = Cardinality(bfLast.written)

\* C33 (as claimed): whenever train_and_maybe_promote has returned promoted
\* = false, models/current.joblib is what it was when the call started.
C33_UnpromotedKeepsProduction ==
  \A p \in Procs :
    (Returned(p, "train") /\ ret[p].val = FALSE /\ ret[p].msg # "crashed")
      => files[CURRENT_MODEL] = pre[p].files[CURRENT_MODEL]

PartitionIds(coll) == {d._id : d \in coll}

\* C34 (as claimed): every alert is in at most one of the two labeled
\* partitions, and the partition it is in is the label of its record in the
\* alert store.
C34_OnePartitionPerAlert ==
  \A d \in alerts :
    /\ ~(d._id \in PartitionIds(malicious) /\ d._id \in PartitionIds(safe))
    /\ d._id \in PartitionIds(malicious) => d.label = "malicious"
    /\ d._id \in PartitionIds(safe) => d.label = "safe"

\* C35 (as claimed): after a human classify call has succeeded on an alert,
\* neither its record in the alert store nor its copy in a labeled partition
\* carries auto_classified = true.
C35_HumanLabelClearsAutoFlag ==
  clsLast.status = 200 =>
    \A d \in alerts \cup malicious \cup safe :
      d._id = clsLast.id => ~d.auto_classified

\* C36 (as claimed): the version records have pairwise distinct version_id
\* values and pairwise distinct artifact paths, and a save that has returned
\* wrote its artifact to a path that held no file before, also when two
\* saves start within the same clock second.
C36_SavesNeverCollide ==
  /\ \A i, j \in DOMAIN meta :
       i # j => /\ meta[i].version_id # meta[j].version_id
                /\ meta[i].path # meta[j].path
  /\ \A p \in Procs :
       (Returned(p, "save") /\ ret[p].val # "crashed")
         => pre[p].files[VersionPath(ret[p].vid)] = NoFile

\* C37 (as claimed): in every state the version flagged production has its
\* artifact file on disk, and a delete that returned true has removed neither
\* the record nor the file of the version that was in production.
C37_ProductionKept ==
  /\ \A i \in DOMAIN meta : meta[i].is_production => Exists(meta[i].path)
  /\ \A p \in Procs :
       (Returned(p, "delete") /\ ret[p].val = "true") =>
         \A i \in Production(pre[p].meta) :
           /\ \E j \in DOMAIN meta : meta[j] = pre[p].meta[i]
           /\ Exists(pre[p].meta[i].path)

\* a delete has returned true while a version was in production
C37_Witness ==
  /\ Returned(1, "delete") /\ ret[1].val = "true"
  /\ Production(pre[1].meta) # {}
  /\ \E i \in Production(meta) : Exists(meta[i].path)

\* C39 (as claimed): the columns the Trainer fits on being the columns the
\* engine passes at inference, a predict of a well-formed alert with a
\* pipeline fitted by the Trainer returns malicious or benign, never the
\* unknown result.
C39_TrainedColumnsPredict ==
  (/\ featLast.op = "predict"
   /\ featLast.fitted = TrainerColumns
   /\ ~featLast.first.raised)
    => featLast.label \in {"malicious", "benign"}

\* C40 (as claimed): whenever the settings document holds a
\* confidence_threshold, the decision threshold of the engine equals it:
\* after the startup of a process, after every update of the settings that
\* patches confidence_threshold, and after every reload.
C40_ThresholdFollowsSettings ==
  settings.confidence_threshold # Unset
    => engine.threshold = settings.confidence_threshold

====
